---- MODULE Spec2Model ----
(***************************************************************************)
(* A model of the icon resolution and caching engine of gtkicontheme.c     *)
(* (GTK+ 3.12.1): directory matching, theme search order, the IconInfo     *)
(* cache with its LRU side list, and the reference counting that ties      *)
(* them together.                                                          *)
(*                                                                         *)
(* Icon names are sequences of their hyphen-separated segments, so         *)
(* "edit-cut-symbolic" is <<"edit", "cut", "symbolic">>.  Lookup flags are  *)
(* sets of flag names.  A NULL pointer to an IconInfo is the id 0, a NULL   *)
(* filename is the empty sequence.                                         *)
(***************************************************************************)
EXTENDS Integers, Sequences, FiniteSets, TLC

VARIABLES
  \* ---- GtkIconThemePrivate ----
  info_cache,          \* set of IconInfo ids: the values of priv->info_cache
  info_cache_lru,      \* sequence of IconInfo ids, head first
  current_theme,       \* priv->current_theme
  search_path,         \* priv->search_path
  themes_valid,        \* priv->themes_valid
  loading_themes,      \* priv->loading_themes
  themes,              \* priv->themes, in search order
  unthemed_icons,      \* priv->unthemed_icons: name -> [svg_filename, no_svg_filename]
  last_stat_time,      \* priv->last_stat_time
  dir_mtimes,          \* priv->dir_mtimes: the recorded mtime of each tracked path
  theme_changed_idle,  \* priv->theme_changed_idle (is an idle emission queued)
  \* ---- process-wide state ----
  icon_theme_builtin_icons, \* name -> list of BuiltinIcon, newest first
  \* ---- the heap of GtkIconInfo objects ----
  infos,               \* id -> the object's fields; ref_count = 0 is freed memory
  \* ---- the environment ----
  disk,                \* theme descriptors, loose icon files and mtimes on disk
  now,                 \* g_get_current_time ().tv_sec
  handles,             \* id -> number of IconInfo references callers hold
  proxies,             \* id -> reference count of the IconInfo's proxy pixbuf
  emitted,             \* number of "changed" emissions so far
  ret,                 \* what the last call returned to its caller
  tasks,               \* the GTasks of gtk_icon_info_load_icon_async
  \* ---- history ----
  park_order           \* the ids the LRU list holds, the most recently parked first

vars == <<info_cache, info_cache_lru, current_theme, search_path, themes_valid,
          loading_themes,
          themes, unthemed_icons, last_stat_time, dir_mtimes, theme_changed_idle,
          icon_theme_builtin_icons, infos, disk, now, handles, proxies, emitted, ret,
          tasks, park_order>>

-----------------------------------------------------------------------------
(* Program constants *)

INFO_CACHE_LRU_SIZE == 32
G_MAXINT == 2147483647
DEFAULT_THEME_NAME == "hicolor"

ICON_SUFFIX_NONE == 0
ICON_SUFFIX_XPM == 1
ICON_SUFFIX_SVG == 2
ICON_SUFFIX_PNG == 4

ICON_THEME_DIR_FIXED == "Fixed"
ICON_THEME_DIR_SCALABLE == "Scalable"
ICON_THEME_DIR_THRESHOLD == "Threshold"
ICON_THEME_DIR_UNTHEMED == "Unthemed"

NoFile == <<>>

abs(x) == IF x < 0 THEN -x ELSE x

HasBit(mask, bit) == (mask \div bit) % 2 = 1

-----------------------------------------------------------------------------
(* Directory matching *)

\* An IconThemeDir.  icons maps the names found in the directory to the
\* bitmask of the suffixes they were found with.
IconThemeDir(type, size, min_size, max_size, threshold, scale, dir, icons) ==
  [type |-> type, size |-> size, min_size |-> min_size, max_size |-> max_size,
   threshold |-> threshold, scale |-> scale, dir |-> dir, icons |-> icons]

theme_dir_size_difference(dir, size, scale) ==
  LET scaled_size == size * scale
      scaled_dir_size == dir.size * dir.scale
  IN  CASE dir.type = ICON_THEME_DIR_FIXED ->
             abs(scaled_size - scaled_dir_size)
        [] dir.type = ICON_THEME_DIR_SCALABLE ->
             IF scaled_size < dir.min_size * dir.scale
               THEN dir.min_size * dir.scale - scaled_size
             ELSE IF size > dir.max_size * dir.scale
               THEN scaled_size - dir.max_size * dir.scale
             ELSE 0
        [] dir.type = ICON_THEME_DIR_THRESHOLD ->
             LET min == (dir.size - dir.threshold) * dir.scale
                 max == (dir.size + dir.threshold) * dir.scale
             IN  IF scaled_size < min THEN min - scaled_size
                 ELSE IF scaled_size > max THEN scaled_size - max
                 ELSE 0

best_suffix(suffix, allow_svg) ==
  IF HasBit(suffix, ICON_SUFFIX_PNG) THEN ICON_SUFFIX_PNG
  ELSE IF allow_svg /\ HasBit(suffix, ICON_SUFFIX_SVG) THEN ICON_SUFFIX_SVG
  ELSE IF HasBit(suffix, ICON_SUFFIX_XPM) THEN ICON_SUFFIX_XPM
  ELSE ICON_SUFFIX_NONE

theme_dir_get_icon_suffix(dir, icon_name) ==
  IF icon_name \in DOMAIN dir.icons THEN dir.icons[icon_name] ELSE ICON_SUFFIX_NONE

\* TRUE if dir_a is a better match
compare_dir_matches(dir_a, difference_a, dir_b, difference_b, requested_size, requested_scale) ==
  LET diff_a == abs(requested_size * requested_scale - dir_a.size * dir_a.scale)
      diff_b == abs(requested_size * requested_scale - dir_b.size * dir_b.scale)
      tail ==
        IF dir_a.scale = requested_scale /\ dir_b.scale # requested_scale THEN TRUE
        ELSE IF dir_a.scale # requested_scale /\ dir_b.scale = requested_scale THEN FALSE
        ELSE IF dir_a.type # ICON_THEME_DIR_SCALABLE /\ dir_b.type = ICON_THEME_DIR_SCALABLE
          THEN TRUE
        ELSE IF dir_a.type = ICON_THEME_DIR_SCALABLE /\ dir_b.type # ICON_THEME_DIR_SCALABLE
          THEN FALSE
        ELSE diff_a <= diff_b
  IN  IF difference_a = 0
        THEN (IF difference_b # 0 THEN TRUE ELSE tail)
      ELSE IF dir_a.size >= requested_size /\ dir_b.size < requested_size THEN TRUE
      ELSE IF dir_a.size < requested_size /\ dir_b.size >= requested_size THEN FALSE
      ELSE IF difference_a < difference_b THEN TRUE
      ELSE IF difference_a > difference_b THEN FALSE
      ELSE tail

\* The loop of theme_lookup_icon over dirs[i..]: the running best is the
\* index min_dir into dirs (0 for NULL) with its min_difference.
RECURSIVE scan_dirs(_, _, _, _, _, _, _, _)
scan_dirs(dirs, i, min_dir, min_difference, icon_name, size, scale, allow_svg) ==
  IF i > Len(dirs) THEN [min_dir |-> min_dir, min_difference |-> min_difference]
  ELSE LET dir == dirs[i]
           suffix == theme_dir_get_icon_suffix(dir, icon_name)
           difference == theme_dir_size_difference(dir, size, scale)
           take == /\ best_suffix(suffix, allow_svg) # ICON_SUFFIX_NONE
                   /\ \/ min_dir = 0
                      \/ compare_dir_matches(dir, difference, dirs[min_dir],
                                             min_difference, size, scale)
       IN  IF take
             THEN scan_dirs(dirs, i + 1, i, difference, icon_name, size, scale, allow_svg)
             ELSE scan_dirs(dirs, i + 1, min_dir, min_difference, icon_name, size,
                            scale, allow_svg)

-----------------------------------------------------------------------------
(* Built-in icons *)

NoPixbuf == <<>>
NoBuiltin == [size |-> -1, pixbuf |-> NoPixbuf]

\* The one icon name the compiled-in icon cache is taken to hold
StockName == <<"stock">>

\* _gtk_icon_cache_get_icon_flags of the compiled-in cache
builtin_cache_icons(size) ==
  IF size \in {16, 24} THEN (StockName :> ICON_SUFFIX_PNG) ELSE <<>>

builtin_dirs ==
  [i \in 1..5 |->
     LET size == <<16, 20, 24, 32, 48>>[i]
     IN  IconThemeDir(ICON_THEME_DIR_THRESHOLD, size, size, size, 2, 1, "",
                      builtin_cache_icons(size))]

\* The loop of find_builtin_icon over icons[i..]; an exact match breaks
\* out of the loop.
RECURSIVE builtin_scan(_, _, _, _, _, _)
builtin_scan(icons, i, size, min_difference, has_larger, min_icon) ==
  IF i > Len(icons) THEN [icon |-> min_icon, min_difference |-> min_difference]
  ELSE LET default_icon == icons[i]
           min == default_icon.size - 2
           max == default_icon.size + 2
           smaller == size < min
           difference == IF size < min THEN min - size
                         ELSE IF size > max THEN size - max
                         ELSE 0
       IN  IF difference = 0
             THEN [icon |-> default_icon, min_difference |-> min_difference]
           ELSE IF ~has_larger
             THEN IF difference < min_difference \/ smaller
                    THEN builtin_scan(icons, i + 1, size, difference, smaller, default_icon)
                    ELSE builtin_scan(icons, i + 1, size, min_difference, has_larger,
                                      min_icon)
           ELSE IF difference < min_difference /\ smaller
                  THEN builtin_scan(icons, i + 1, size, difference, has_larger,
                                    default_icon)
                  ELSE builtin_scan(icons, i + 1, size, min_difference, has_larger,
                                    min_icon)

\* find_builtin_icon with has_larger initialised to TRUE
find_builtin_icon_has_larger(icon_name, size, scale) ==
  LET icons == IF icon_name \in DOMAIN icon_theme_builtin_icons
                 THEN icon_theme_builtin_icons[icon_name] ELSE <<>>
  IN  builtin_scan(icons, 1, size * scale, G_MAXINT, TRUE, NoBuiltin)

find_builtin_icon(icon_name, size, scale) ==
  LET icons == IF icon_name \in DOMAIN icon_theme_builtin_icons
                 THEN icon_theme_builtin_icons[icon_name] ELSE <<>>
  IN  builtin_scan(icons, 1, size * scale, G_MAXINT, FALSE, NoBuiltin)

\* gtk_icon_theme_add_builtin_icon with g_slist_append in the place of
\* g_slist_prepend: the new icon goes to the end of the name's list
add_builtin_icon_append(table, icon_name, size, pixbuf) ==
  LET icons == IF icon_name \in DOMAIN table THEN table[icon_name] ELSE <<>>
      default_icon == [size |-> size, pixbuf |-> pixbuf]
  IN  [n \in DOMAIN table \cup {icon_name} |->
         IF n = icon_name THEN icons \o <<default_icon>> ELSE table[n]]

\* gtk_icon_theme_add_builtin_icon: the new icon is prepended to the name's list
add_builtin_icon(table, icon_name, size, pixbuf) ==
  LET icons == IF icon_name \in DOMAIN table THEN table[icon_name] ELSE <<>>
      default_icon == [size |-> size, pixbuf |-> pixbuf]
  IN  [n \in DOMAIN table \cup {icon_name} |->
         IF n = icon_name THEN <<default_icon>> \o icons ELSE table[n]]

-----------------------------------------------------------------------------
(* GtkIconInfo objects *)

NoKey == [icon_names |-> <<>>, size |-> 0, scale |-> 0, flags |-> {}]

\* Freed memory, and the fields g_object_new zeroes.  A gdouble is a pair
\* <<numerator, denominator>>; emblem_infos holds the ids of the emblems'
\* IconInfos; pixbuf is NoPixbuf or names the GdkPixbuf object.
Freed ==
  [ref_count |-> 0, key |-> NoKey, in_cache |-> FALSE, filename |-> NoFile,
   cache_pixbuf |-> NoPixbuf, dir_type |-> ICON_THEME_DIR_FIXED, dir_size |-> 0,
   dir_scale |-> 0, unscaled_scale |-> <<0, 1>>, threshold |-> 0,
   desired_size |-> 0, desired_scale |-> 0, forced_size |-> FALSE,
   emblem_infos |-> <<>>, emblems_applied |-> FALSE,
   pixbuf |-> NoPixbuf, load_error |-> FALSE, scale |-> <<0, 1>>,
   symbolic_pixbuf_cache |-> <<>>, symbolic_pixbuf_size |-> FALSE]

icon_info_new(type, dir_size, dir_scale) ==
  [Freed EXCEPT !.ref_count = 1, !.dir_type = type, !.dir_size = dir_size,
                !.dir_scale = dir_scale, !.unscaled_scale = <<1, 1>>,
                !.scale = <<-1, 1>>]

icon_info_new_builtin(icon) ==
  [icon_info_new(ICON_THEME_DIR_THRESHOLD, icon.size, 1)
     EXCEPT !.cache_pixbuf = icon.pixbuf, !.threshold = 2]

\* The result is <<>> for NULL and <<icon_info>> for a new IconInfo
theme_lookup_icon(theme, icon_name, size, scale, allow_svg, use_builtin) ==
  LET with_builtin == use_builtin /\ theme.name = DEFAULT_THEME_NAME
      \* the while loop runs over builtin_dirs and then restarts on theme->dirs
      dirs == IF with_builtin
                THEN (IF Len(builtin_dirs) = 0 THEN <<>> ELSE builtin_dirs \o theme.dirs)
                ELSE theme.dirs
      \* after the loop, with the result of find_builtin_icon and of the loop
      result(builtin, found) ==
        IF with_builtin /\ builtin.min_difference = 0
          THEN <<icon_info_new_builtin(builtin.icon)>>
        ELSE IF found.min_dir # 0
          THEN LET min_dir == dirs[found.min_dir]
                   suffix == best_suffix(theme_dir_get_icon_suffix(min_dir, icon_name),
                                         allow_svg)
               IN  <<[icon_info_new(min_dir.type, min_dir.size, min_dir.scale)
                        EXCEPT !.threshold = min_dir.threshold,
                               !.filename = IF min_dir.dir # ""
                                              THEN <<min_dir.dir, icon_name, suffix>>
                                              ELSE NoFile,
                               !.cache_pixbuf = IF min_dir.dir = ""
                                                  THEN <<"cache", icon_name, min_dir.size>>
                                                  ELSE NoPixbuf]>>
        ELSE IF builtin.icon # NoBuiltin
          THEN <<icon_info_new_builtin(builtin.icon)>>
        ELSE <<>>
      loop(builtin) ==
        result(builtin, scan_dirs(dirs, 1, 0, builtin.min_difference, icon_name, size,
                                  scale, allow_svg))
  IN  loop(IF with_builtin THEN find_builtin_icon(icon_name, size, scale)
           ELSE [icon |-> NoBuiltin, min_difference |-> G_MAXINT])

-----------------------------------------------------------------------------
(* The program state as one record, so that a handler is a function from    *)
(* the state before to the state after and handlers compose as in the code *)

Prog ==
  [info_cache |-> info_cache, info_cache_lru |-> info_cache_lru,
   current_theme |-> current_theme, search_path |-> search_path,
   themes_valid |-> themes_valid,
   loading_themes |-> loading_themes, themes |-> themes,
   unthemed_icons |-> unthemed_icons, last_stat_time |-> last_stat_time,
   dir_mtimes |-> dir_mtimes, theme_changed_idle |-> theme_changed_idle,
   infos |-> infos]

\* The history of parking after a step that parks id (0: none) and leaves
\* the LRU list lru: id is now the most recently parked, and what the list
\* no longer holds is no longer parked.
Parked(id, lru) ==
  LET order == IF id # 0
                 THEN <<id>> \o SelectSeq(park_order, LAMBDA x : x # id)
                 ELSE park_order
  IN  SelectSeq(order, LAMBDA x : \E i \in 1..Len(lru) : lru[i] = x)

\* The program state becomes P, in a step that parks id in the LRU list (0
\* if it parks nothing)
SetProgParking(P, id) ==
  /\ park_order' = Parked(id, P.info_cache_lru)
  /\ info_cache' = P.info_cache
  /\ info_cache_lru' = P.info_cache_lru
  /\ current_theme' = P.current_theme
  /\ search_path' = P.search_path
  /\ themes_valid' = P.themes_valid
  /\ loading_themes' = P.loading_themes
  /\ themes' = P.themes
  /\ unthemed_icons' = P.unthemed_icons
  /\ last_stat_time' = P.last_stat_time
  /\ dir_mtimes' = P.dir_mtimes
  /\ theme_changed_idle' = P.theme_changed_idle
  /\ infos' = P.infos

SetProg(P) == SetProgParking(P, 0)

Reverse(s) == [i \in 1..Len(s) |-> s[Len(s) + 1 - i]]

RemoveFirst(s, x) ==
  IF \E i \in 1..Len(s) : s[i] = x
    THEN LET i == CHOOSE i \in 1..Len(s) : s[i] = x /\ \A j \in 1..(i - 1) : s[j] # x
         IN  SubSeq(s, 1, i - 1) \o SubSeq(s, i + 1, Len(s))
    ELSE s

InSeq(s, x) == \E i \in 1..Len(s) : s[i] = x

-----------------------------------------------------------------------------
(* Reference counting, the primary cache and the LRU side list *)

RECURSIVE g_object_unref(_, _)
RECURSIVE remove_from_lru_cache(_, _)
RECURSIVE unref_emblems(_, _, _)

\* A destroy notify that leaves the LRU list alone
icon_info_uncached_keep_lru(P, id) == [P EXCEPT !.infos[id].in_cache = FALSE]

\* The destroy notify of priv->info_cache
icon_info_uncached(P, id) ==
  remove_from_lru_cache([P EXCEPT !.infos[id].in_cache = FALSE], id)

\* g_hash_table_remove (info_cache, &icon_info->key)
g_hash_table_remove(P, id) ==
  IF id \in P.info_cache
    THEN icon_info_uncached([P EXCEPT !.info_cache = @ \ {id}], id)
    ELSE P

\* A finalizer that leaves the hash table entry behind
gtk_icon_info_finalize_keep_entry(P, id) == [P EXCEPT !.infos[id] = Freed]

\* g_slist_free_full (emblem_infos, g_object_unref), from the i-th on
unref_emblems(P, emblem_infos, i) ==
  IF i > Len(emblem_infos) THEN P
  ELSE unref_emblems(g_object_unref(P, emblem_infos[i]), emblem_infos, i + 1)

gtk_icon_info_finalize(P, id) ==
  LET P1 == IF P.infos[id].in_cache THEN g_hash_table_remove(P, id) ELSE P
      P2 == unref_emblems(P1, P.infos[id].emblem_infos, 1)
  IN  [P2 EXCEPT !.infos[id] = Freed]

g_object_unref(P, id) ==
  IF P.infos[id].ref_count > 1
    THEN [P EXCEPT !.infos[id].ref_count = @ - 1]
    ELSE gtk_icon_info_finalize([P EXCEPT !.infos[id].ref_count = 0], id)

g_object_ref(P, id) == [P EXCEPT !.infos[id].ref_count = @ + 1]

\* A removal that leaves the list and its reference as they are
remove_from_lru_cache_noop(P, id) == P

remove_from_lru_cache(P, id) ==
  IF InSeq(P.info_cache_lru, id)
    THEN g_object_unref([P EXCEPT !.info_cache_lru = RemoveFirst(@, id)], id)
    ELSE P

\* A list that makes room by dropping its newest entry
ensure_lru_cache_space_newest(P) ==
  IF Len(P.info_cache_lru) >= INFO_CACHE_LRU_SIZE
    THEN g_object_unref([P EXCEPT !.info_cache_lru = Tail(@)], P.info_cache_lru[1])
    ELSE P

\* Remove last item if LRU full
ensure_lru_cache_space(P) ==
  IF Len(P.info_cache_lru) >= INFO_CACHE_LRU_SIZE
    THEN LET icon_info == P.info_cache_lru[INFO_CACHE_LRU_SIZE]
             lru == SubSeq(P.info_cache_lru, 1, INFO_CACHE_LRU_SIZE - 1)
                      \o SubSeq(P.info_cache_lru, INFO_CACHE_LRU_SIZE + 1,
                                Len(P.info_cache_lru))
         IN  g_object_unref([P EXCEPT !.info_cache_lru = lru], icon_info)
    ELSE P

\* A list that takes no reference on the IconInfo it holds
add_to_lru_cache_no_ref(P, id) ==
  LET P1 == ensure_lru_cache_space(P)
  IN  [P1 EXCEPT !.info_cache_lru = <<id>> \o @]

add_to_lru_cache(P, id) ==
  LET P1 == ensure_lru_cache_space(P)
      P2 == g_object_ref(P1, id)
  IN  [P2 EXCEPT !.info_cache_lru = <<id>> \o @]

\* A parking that adds the IconInfo to the list without looking for it
ensure_in_lru_cache_always_add(P, id) == add_to_lru_cache(P, id)

ensure_in_lru_cache(P, id) ==
  IF InSeq(P.info_cache_lru, id)
    THEN [P EXCEPT !.info_cache_lru = <<id>> \o RemoveFirst(@, id)]
    ELSE add_to_lru_cache(P, id)

\* g_hash_table_remove_all (priv->info_cache): every value is passed to the
\* destroy notify; the table stays empty while the notifies run, one after
\* the other
RECURSIVE uncache_all(_, _)
uncache_all(P, ids) ==
  IF ids = {} THEN P
  ELSE LET id == CHOOSE x \in ids : \A y \in ids : x <= y
           next(P1) == IF P1.info_cache = {} THEN uncache_all(P1, ids \ {id}) ELSE P1
       IN  next(icon_info_uncached(P, id))

g_hash_table_remove_all(P) ==
  uncache_all([P EXCEPT !.info_cache = {}], P.info_cache)

-----------------------------------------------------------------------------
(* Theme loading.  The disk holds, per theme name, the first descriptor     *)
(* found on the search path: whether it has a Directories key, the          *)
(* IconThemeDirs its directory sections yield, and its Inherits list; the   *)
(* loose icon files of the search path; and the mtime of each tracked path  *)
(* (0 when the path does not exist).                                        *)

RootPath == "/"

StatMtime(d, path) == IF path \in DOMAIN d.mtime THEN d.mtime[path] ELSE 0

\* An entry of priv->dir_mtimes is [dir, mtime, existed]: dir and mtime are
\* the fields of IconThemeDirMtime, mtime being 0 for a path that g_stat
\* did not find; existed is history, not a field of the struct: whether
\* the path was a directory when the entry was made.

\* The one directory the model knows besides RootPath, and the paths of the
\* themes below it
OptPath == "/opt"

OptPaths ==
  ("Foo" :> "/opt/Foo") @@ ("Bar" :> "/opt/Bar") @@ ("gnome" :> "/opt/gnome")
  @@ (DEFAULT_THEME_NAME :> "/opt/hicolor")

\* g_build_filename (dir, name, NULL): a path below RootPath is written as
\* the name alone
g_build_filename(dir, name) == IF dir = RootPath THEN name ELSE OptPaths[name]

\* The directories theme_subdir_load adds to a theme whose descriptor was
\* found below base.  The dirs of a descriptor are the subdirectories it
\* names that exist below its own base; a base whose recorded mtime is 0 is
\* passed over as one that does not exist.
theme_subdir_load(d, base, theme_file) ==
  IF StatMtime(d, base) = 0 THEN <<>> ELSE theme_file.dirs

RECURSIVE insert_theme(_, _, _)
RECURSIVE insert_themes(_, _, _, _)

\* insert_theme looking at the list only after the loop that stats the
\* theme's directories
insert_theme_stat_first(P, d, theme_name) ==
  LET paths == [i \in 1..Len(P.search_path) |->
                  g_build_filename(P.search_path[i], theme_name)]
      stats == [i \in 1..Len(paths) |->
                  [dir |-> paths[i], mtime |-> StatMtime(d, paths[i]),
                   existed |-> paths[i] \in DOMAIN d.mtime]]
      P1 == [P EXCEPT !.dir_mtimes = Reverse(Reverse(stats) \o @)]
      found == {i \in 1..Len(paths) : paths[i] \in DOMAIN d.desc}
      has_file == found # {}
      base == paths[CHOOSE i \in found : \A j \in found : i <= j]
      theme_file == d.desc[base]
      theme == [name |-> theme_name, dirs |-> <<>>]
      P2 == IF has_file \/ theme_name = DEFAULT_THEME_NAME
              THEN [P1 EXCEPT !.themes = <<theme>> \o @]
              ELSE P1
  IN  IF \E i \in 1..Len(P.themes) : P.themes[i].name = theme_name THEN P1
      ELSE IF ~has_file THEN P2
      ELSE IF ~theme_file.has_dirs
        THEN [P2 EXCEPT !.themes = RemoveFirst(@, theme)]
      ELSE
        LET loaded == [theme EXCEPT !.dirs = theme_subdir_load(d, base, theme_file)]
            P3 == [P2 EXCEPT !.themes =
                     [i \in 1..Len(@) |-> IF @[i] = theme THEN loaded ELSE @[i]]]
        IN  insert_themes(P3, d, theme_file.inherits, 1)

\* P.themes is built by prepending and reversed at the end of load_themes
insert_theme(P, d, theme_name) ==
  IF \E i \in 1..Len(P.themes) : P.themes[i].name = theme_name THEN P
  ELSE
    LET paths == [i \in 1..Len(P.search_path) |->
                    g_build_filename(P.search_path[i], theme_name)]
        stats == [i \in 1..Len(paths) |->
                    [dir |-> paths[i], mtime |-> StatMtime(d, paths[i]),
                   existed |-> paths[i] \in DOMAIN d.mtime]]
        P1 == [P EXCEPT !.dir_mtimes = Reverse(Reverse(stats) \o @)]
        \* the first index.theme on the search path that is a file and parses
        found == {i \in 1..Len(paths) : paths[i] \in DOMAIN d.desc}
        has_file == found # {}
        base == paths[CHOOSE i \in found : \A j \in found : i <= j]
        theme_file == d.desc[base]
        theme == [name |-> theme_name, dirs |-> <<>>]
        P2 == IF has_file \/ theme_name = DEFAULT_THEME_NAME
                THEN [P1 EXCEPT !.themes = <<theme>> \o @]
                ELSE P1
    IN  IF ~has_file THEN P2
        ELSE IF ~theme_file.has_dirs
          THEN [P2 EXCEPT !.themes = RemoveFirst(@, theme)]
        ELSE
          LET loaded == [theme EXCEPT !.dirs = theme_subdir_load(d, base, theme_file)]
              P3 == [P2 EXCEPT !.themes =
                       [i \in 1..Len(@) |-> IF @[i] = theme THEN loaded ELSE @[i]]]
          IN  insert_themes(P3, d, theme_file.inherits, 1)

insert_themes(P, d, names, i) ==
  IF i > Len(names) THEN P
  ELSE insert_themes(insert_theme(P, d, names[i]), d, names, i + 1)

\* load_themes putting the default theme into the list without looking
\* whether the list holds it already
load_themes_default_unchecked(P, d, tv_sec) ==
  LET P0 == IF P.current_theme # "" THEN insert_theme(P, d, P.current_theme) ELSE P
      P1 == insert_theme(P0, d, "gnome")
      P2 == insert_theme([P1 EXCEPT !.themes = <<>>], d, DEFAULT_THEME_NAME)
      P3 == [P2 EXCEPT !.themes = @ \o P1.themes]
      bases == [i \in 1..Len(P.search_path) |->
                  [dir |-> P.search_path[i], mtime |-> StatMtime(d, P.search_path[i]),
                   existed |-> P.search_path[i] \in DOMAIN d.mtime]]
      scanned == \E i \in 1..Len(bases) : bases[i].dir = RootPath /\ bases[i].mtime # 0
  IN  [P3 EXCEPT !.themes = Reverse(@),
                 !.unthemed_icons = IF scanned THEN d.unthemed ELSE <<>>,
                 !.dir_mtimes = @ \o bases,
                 !.themes_valid = TRUE,
                 !.last_stat_time = tv_sec]

\* The loose icon files are those of RootPath: no other directory of the
\* search path holds an image file of its own
load_themes(P, d, tv_sec) ==
  LET P0 == IF P.current_theme # "" THEN insert_theme(P, d, P.current_theme) ELSE P
      P1 == insert_theme(P0, d, "gnome")
      P2 == insert_theme(P1, d, DEFAULT_THEME_NAME)
      bases == [i \in 1..Len(P.search_path) |->
                  [dir |-> P.search_path[i], mtime |-> StatMtime(d, P.search_path[i]),
                   existed |-> P.search_path[i] \in DOMAIN d.mtime]]
      scanned == \E i \in 1..Len(bases) : bases[i].dir = RootPath /\ bases[i].mtime # 0
  IN  [P2 EXCEPT !.themes = Reverse(@),
                 !.unthemed_icons = IF scanned THEN d.unthemed ELSE <<>>,
                 !.dir_mtimes = @ \o bases,
                 !.themes_valid = TRUE,
                 !.last_stat_time = tv_sec]

blow_themes(P) ==
  [P EXCEPT !.themes = <<>>, !.unthemed_icons = <<>>, !.dir_mtimes = <<>>,
            !.themes_valid = FALSE]

queue_theme_changed(P) == [P EXCEPT !.theme_changed_idle = TRUE]

\* do_theme_change leaving the primary cache as it is
do_theme_change_keep_cache(P) ==
  IF ~P.themes_valid THEN P ELSE queue_theme_changed(blow_themes(P))

\* do_theme_change without the test of themes_valid
do_theme_change_always_queue(P) ==
  queue_theme_changed(blow_themes(g_hash_table_remove_all(P)))

do_theme_change(P) ==
  LET rest(P1) == IF ~P1.themes_valid THEN P1
                   ELSE queue_theme_changed(blow_themes(P1))
  IN  rest(g_hash_table_remove_all(P))

\* TRUE if a tracked path changed on disk
rescan_changed(P, d) ==
  \E i \in 1..Len(P.dir_mtimes) :
     LET dir_mtime == P.dir_mtimes[i]
         st_mtime == StatMtime(d, dir_mtime.dir)
     IN  ~ \/ (st_mtime # 0 /\ dir_mtime.mtime = st_mtime)
           \/ (dir_mtime.mtime = 0 /\ st_mtime = 0)

\* rescan_themes: the state after, the result being rescan_changed
rescan_themes(P, d, tv_sec) ==
  IF rescan_changed(P, d) THEN P ELSE [P EXCEPT !.last_stat_time = tv_sec]

\* The first block of ensure_valid_themes with >= in the place of > in the
\* test of the time since the last stat
ensure_valid_themes_rescan_at_5(P, d, tv_sec) ==
  LET check == P.themes_valid /\ abs(tv_sec - P.last_stat_time) >= 5
      rescan(P1, changed) ==
        IF changed THEN blow_themes(g_hash_table_remove_all(P1)) ELSE P1
  IN  IF check THEN rescan(rescan_themes(P, d, tv_sec), rescan_changed(P, d))
      ELSE P

\* A rescan that discards the themes and leaves the primary cache as it is
ensure_valid_themes_rescan_keep_cache(P, d, tv_sec) ==
  LET check == P.themes_valid /\ abs(tv_sec - P.last_stat_time) > 5
      rescan(P1, changed) == IF changed THEN blow_themes(P1) ELSE P1
  IN  IF check THEN rescan(rescan_themes(P, d, tv_sec), rescan_changed(P, d))
      ELSE P

\* The first block of ensure_valid_themes after the flag is set: a rescan
\* if the themes are valid and the last one is more than 5 seconds ago
ensure_valid_themes_rescan(P, d, tv_sec) ==
  LET check == P.themes_valid /\ abs(tv_sec - P.last_stat_time) > 5
      \* if (rescan_themes (icon_theme)) { remove_all; blow_themes }
      rescan(P1, changed) ==
        IF changed THEN blow_themes(g_hash_table_remove_all(P1)) ELSE P1
  IN  IF check THEN rescan(rescan_themes(P, d, tv_sec), rescan_changed(P, d))
      ELSE P

\* The second block and the end of ensure_valid_themes:
\* if (!priv->themes_valid) { load_themes; if (was_valid) queue } and the
\* flag is cleared
ensure_valid_themes_load(P, d, tv_sec, was_valid) ==
  LET done(P1) == [P1 EXCEPT !.loading_themes = FALSE]
  IN  done(IF P.themes_valid THEN P
           ELSE IF was_valid THEN queue_theme_changed(load_themes(P, d, tv_sec))
           ELSE load_themes(P, d, tv_sec))

\* ensure_valid_themes without the test of loading_themes
ensure_valid_themes_unguarded(P, d, tv_sec) ==
  LET load(P1) == ensure_valid_themes_load(P1, d, tv_sec, P.themes_valid)
      rescan(P1) == load(ensure_valid_themes_rescan(P1, d, tv_sec))
  IN  rescan([P EXCEPT !.loading_themes = TRUE])

ensure_valid_themes(P, d, tv_sec) ==
  IF P.loading_themes THEN P
  ELSE
    LET load(P1) == ensure_valid_themes_load(P1, d, tv_sec, P.themes_valid)
        rescan(P1) == load(ensure_valid_themes_rescan(P1, d, tv_sec))
    IN  rescan([P EXCEPT !.loading_themes = TRUE])

-----------------------------------------------------------------------------
(* choose_icon *)

icon_info_key_equal(a, b) ==
  LET n == IF Len(a.icon_names) < Len(b.icon_names)
             THEN Len(a.icon_names) ELSE Len(b.icon_names)
  IN  /\ a.size = b.size
      /\ a.scale = b.scale
      /\ a.flags = b.flags
      /\ \A i \in 1..n : a.icon_names[i] = b.icon_names[i]
      /\ Len(a.icon_names) = n /\ Len(b.icon_names) = n

\* A hash table in which no key is ever found
g_hash_table_lookup_miss(P, key) == 0

\* g_hash_table_lookup (priv->info_cache, &key): the id found, or 0
g_hash_table_lookup(P, key) ==
  IF \E id \in P.info_cache : icon_info_key_equal(P.infos[id].key, key)
    THEN CHOOSE id \in P.info_cache : icon_info_key_equal(P.infos[id].key, key)
    ELSE 0

\* g_str_has_suffix (icon_name, "-symbolic")
has_symbolic_suffix(icon_name) ==
  Len(icon_name) >= 2 /\ icon_name[Len(icon_name)] = "symbolic"

\* The third component of a file name is its suffix
suffix_from_name(filename) == filename[3]

NoMatch == [info |-> <<>>, theme |-> 0, icon_name |-> <<>>]

\* for (l = priv->themes; l; l = l->next) of the symbolic pass, from theme t on
RECURSIVE symbolic_pass(_, _, _, _, _, _, _)
symbolic_pass(P, t, icon_names, size, scale, allow_svg, use_builtin) ==
  IF t > Len(P.themes) THEN NoMatch
  ELSE LET found(icon_info) ==
             IF icon_info # <<>>
               THEN [info |-> icon_info, theme |-> t, icon_name |-> icon_names[1]]
               ELSE symbolic_pass(P, t + 1, icon_names, size, scale, allow_svg,
                                  use_builtin)
       IN  found(theme_lookup_icon(P.themes[t], icon_names[1], size, scale, allow_svg,
                                   use_builtin))

\* A search that walks the themes from the last to the first
RECURSIVE last_theme_pass(_, _, _, _, _, _, _, _)
last_theme_pass(P, t, i, icon_names, size, scale, allow_svg, use_builtin) ==
  IF t > Len(P.themes) THEN NoMatch
  ELSE IF i > Len(icon_names)
    THEN last_theme_pass(P, t + 1, 1, icon_names, size, scale, allow_svg, use_builtin)
  ELSE LET u == Len(P.themes) + 1 - t
           found(icon_info) ==
             IF icon_info # <<>>
               THEN [info |-> icon_info, theme |-> u, icon_name |-> icon_names[i]]
               ELSE last_theme_pass(P, t, i + 1, icon_names, size, scale, allow_svg,
                                    use_builtin)
       IN  found(theme_lookup_icon(P.themes[u], icon_names[i], size, scale, allow_svg,
                                   use_builtin))

\* A search that tries each name in every theme before the next name.  Its
\* parameters t and i are those of theme_pass, on which the names are the
\* outer loop here.
RECURSIVE name_major_pass(_, _, _, _, _, _, _, _)
name_major_pass(P, t, i, icon_names, size, scale, allow_svg, use_builtin) ==
  IF i > Len(icon_names) THEN NoMatch
  ELSE IF t > Len(P.themes)
    THEN name_major_pass(P, 1, i + 1, icon_names, size, scale, allow_svg, use_builtin)
  ELSE LET found(icon_info) ==
             IF icon_info # <<>>
               THEN [info |-> icon_info, theme |-> t, icon_name |-> icon_names[i]]
               ELSE name_major_pass(P, t + 1, i, icon_names, size, scale, allow_svg,
                                    use_builtin)
       IN  found(theme_lookup_icon(P.themes[t], icon_names[i], size, scale, allow_svg,
                                   use_builtin))

\* The nested loops over the themes and, inside one theme, over the names
RECURSIVE theme_pass(_, _, _, _, _, _, _, _)
theme_pass(P, t, i, icon_names, size, scale, allow_svg, use_builtin) ==
  IF t > Len(P.themes) THEN NoMatch
  ELSE IF i > Len(icon_names)
    THEN theme_pass(P, t + 1, 1, icon_names, size, scale, allow_svg, use_builtin)
  ELSE LET found(icon_info) ==
             IF icon_info # <<>>
               THEN [info |-> icon_info, theme |-> t, icon_name |-> icon_names[i]]
               ELSE theme_pass(P, t, i + 1, icon_names, size, scale, allow_svg,
                               use_builtin)
       IN  found(theme_lookup_icon(P.themes[t], icon_names[i], size, scale, allow_svg,
                                   use_builtin))

\* The lookup in priv->unthemed_icons, by the first name that has an entry
unthemed_pass(P, icon_names, size, allow_svg) ==
  LET hits == {i \in 1..Len(icon_names) : icon_names[i] \in DOMAIN P.unthemed_icons}
  IN  IF hits = {} THEN NoMatch
      ELSE
        LET i == CHOOSE x \in hits : \A y \in hits : x <= y
            unthemed_icon == P.unthemed_icons[icon_names[i]]
            filename ==
              IF /\ allow_svg
                 /\ unthemed_icon.svg_filename # NoFile
                 /\ \/ unthemed_icon.no_svg_filename = NoFile
                    \/ suffix_from_name(unthemed_icon.no_svg_filename) # ICON_SUFFIX_PNG
                THEN unthemed_icon.svg_filename
              ELSE IF unthemed_icon.no_svg_filename # NoFile
                THEN unthemed_icon.no_svg_filename
              ELSE NoFile
        IN  [info |-> <<[icon_info_new(ICON_THEME_DIR_UNTHEMED, size, 1)
                           EXCEPT !.filename = filename]>>,
             theme |-> 0, icon_name |-> <<>>]

\* A search without the pass for a symbolic first name
choose_icon_search_no_symbolic(P, icon_names, size, scale, flags, supports_svg) ==
  LET allow_svg == IF "NO_SVG" \in flags THEN FALSE
                   ELSE IF "FORCE_SVG" \in flags THEN TRUE
                   ELSE supports_svg
      use_builtin == "USE_BUILTIN" \in flags
      themed(gen) == IF gen.info # <<>> THEN gen
                     ELSE unthemed_pass(P, icon_names, size, allow_svg)
  IN  themed(theme_pass(P, 1, 1, icon_names, size, scale, allow_svg, use_builtin))

\* The search of choose_icon after a cache miss, up to the label out
choose_icon_search(P, icon_names, size, scale, flags, supports_svg) ==
  LET allow_svg == IF "NO_SVG" \in flags THEN FALSE
                   ELSE IF "FORCE_SVG" \in flags THEN TRUE
                   ELSE supports_svg
      use_builtin == "USE_BUILTIN" \in flags
      themed(gen) == IF gen.info # <<>> THEN gen
                     ELSE unthemed_pass(P, icon_names, size, allow_svg)
      symbolic(sym) ==
        IF sym.info # <<>> THEN sym
        ELSE themed(theme_pass(P, 1, 1, icon_names, size, scale, allow_svg,
                               use_builtin))
  IN  symbolic(IF Len(icon_names) >= 1 /\ has_symbolic_suffix(icon_names[1])
                 THEN symbolic_pass(P, 1, icon_names, size, scale, allow_svg,
                                    use_builtin)
                 ELSE NoMatch)

\* The part of choose_icon after the label out, for a match m: the fields
\* of the new IconInfo
choose_icon_out(P, m, icon_names, size, scale, flags, supports_svg) ==
  LET allow_svg == IF "NO_SVG" \in flags THEN FALSE
                   ELSE IF "FORCE_SVG" \in flags THEN TRUE
                   ELSE supports_svg
      use_builtin == "USE_BUILTIN" \in flags
      icon_info == m.info[1]
      forced_size == "FORCE_SIZE" \in flags
      out(unscaled) ==
        [icon_info EXCEPT
           !.desired_size = size,
           !.desired_scale = scale,
           !.forced_size = forced_size,
           !.unscaled_scale =
              IF unscaled # <<>>
                THEN <<unscaled[1].dir_size * scale,
                       icon_info.dir_size * icon_info.dir_scale>>
                ELSE <<1, 1>>,
           !.key = [icon_names |-> icon_names, size |-> size, scale |-> scale,
                    flags |-> flags],
           !.in_cache = TRUE]
  IN  out(IF scale # 1 /\ ~forced_size /\ m.theme # 0
            THEN theme_lookup_icon(P.themes[m.theme], m.icon_name, size, 1, allow_svg,
                                   use_builtin)
            ELSE <<>>)

\* The address g_object_new returns: any free slot of the heap
FreeIds(P) == {id \in DOMAIN P.infos : P.infos[id].ref_count = 0}

\* choose_icon keeping an entry for a key that nothing matched
choose_icon_caching_failure(P, d, tv_sec, new_id, icon_names, size, scale, flags, supports_svg) ==
  LET key == [icon_names |-> icon_names, size |-> size, scale |-> scale,
              flags |-> flags]
      failed(P1) ==
        IF new_id = 0 THEN P1
        ELSE [P1 EXCEPT !.infos[new_id] = [icon_info_new(ICON_THEME_DIR_UNTHEMED, size, 1)
                                             EXCEPT !.key = key, !.in_cache = TRUE],
                        !.info_cache = @ \cup {new_id}]
      miss(P1, m) ==
        IF m.info # <<>>
          THEN [P |-> [P1 EXCEPT
                         !.infos[new_id] = choose_icon_out(P1, m, icon_names, size,
                                                           scale, flags, supports_svg),
                         !.info_cache = @ \cup {new_id}],
                info |-> new_id, created |-> TRUE]
          ELSE [P |-> failed(P1), info |-> 0, created |-> FALSE]
      lookup(P1, hit) ==
        IF hit # 0
          THEN [P |-> remove_from_lru_cache(g_object_ref(P1, hit), hit), info |-> hit,
                created |-> FALSE]
          ELSE miss(P1, choose_icon_search(P1, icon_names, size, scale, flags,
                                           supports_svg))
      valid(P1) == lookup(P1, g_hash_table_lookup(P1, key))
  IN  valid(ensure_valid_themes(P, d, tv_sec))

\* choose_icon, the new IconInfo (if any) being allocated at id new_id.
\* The result is the state after and the IconInfo returned (0 for NULL).
choose_icon(P, d, tv_sec, new_id, icon_names, size, scale, flags, supports_svg) ==
  LET key == [icon_names |-> icon_names, size |-> size, scale |-> scale,
              flags |-> flags]
      \* from the label out on, for the match m of the search
      miss(P1, m) ==
        IF m.info # <<>>
          THEN [P |-> [P1 EXCEPT
                         !.infos[new_id] = choose_icon_out(P1, m, icon_names, size,
                                                           scale, flags, supports_svg),
                         !.info_cache = @ \cup {new_id}],
                info |-> new_id, created |-> TRUE]
          ELSE [P |-> P1, info |-> 0, created |-> FALSE]
      \* after the cache lookup, which found hit
      lookup(P1, hit) ==
        IF hit # 0
          THEN [P |-> remove_from_lru_cache(g_object_ref(P1, hit), hit), info |-> hit,
                created |-> FALSE]
          ELSE miss(P1, choose_icon_search(P1, icon_names, size, scale, flags,
                                           supports_svg))
      valid(P1) == lookup(P1, g_hash_table_lookup(P1, key))
  IN  valid(ensure_valid_themes(P, d, tv_sec))

-----------------------------------------------------------------------------
(* Rendering and the proxy pixbuf *)

\* The part of icon_info_ensure_scale_and_pixbuf (info, FALSE) before
\* apply_emblems, on the IconInfo info.  decoded is whether the image codec
\* decodes the file, by names the thread that runs the call and so owns the
\* GdkPixbuf objects it creates; the image a file holds is as wide as the
\* nominal size of its directory.  The result is info after the call and
\* whether info has a pixbuf.
load_scale_and_pixbuf(info, decoded, by) ==
  IF info.pixbuf # NoPixbuf THEN [info |-> info, ok |-> TRUE]
  ELSE IF info.load_error THEN [info |-> info, ok |-> FALSE]
  ELSE
    LET scaled_desired_size == info.desired_size * info.desired_scale
        is_svg == /\ info.filename # NoFile
                  /\ suffix_from_name(info.filename) = ICON_SUFFIX_SVG
        dir_scale ==
          IF info.forced_size THEN <<-1, 1>>
          ELSE IF info.dir_type = ICON_THEME_DIR_FIXED THEN info.unscaled_scale
          ELSE IF info.dir_type = ICON_THEME_DIR_THRESHOLD
            THEN IF /\ scaled_desired_size
                         >= (info.dir_size - info.threshold) * info.dir_scale
                    /\ scaled_desired_size
                         <= (info.dir_size + info.threshold) * info.dir_scale
                   THEN info.unscaled_scale
                 ELSE IF info.dir_size > 0
                   THEN <<scaled_desired_size, info.dir_size * info.dir_scale>>
                 ELSE info.scale
          ELSE IF info.dir_type = ICON_THEME_DIR_SCALABLE /\ info.dir_size > 0
            THEN <<scaled_desired_size, info.dir_size * info.dir_scale>>
          ELSE info.scale
        image_size == info.dir_size
        image_scale ==
          IF image_size <= 0 THEN <<1, 1>>
          ELSE IF /\ info.dir_type = ICON_THEME_DIR_UNTHEMED
                  /\ ~info.forced_size
                  /\ scaled_desired_size > image_size
            THEN <<1, 1>>
          ELSE <<scaled_desired_size, image_size>>
        scale == IF dir_scale[1] < 0 THEN image_scale ELSE dir_scale
        source_pixbuf == IF info.cache_pixbuf # NoPixbuf THEN info.cache_pixbuf
                         ELSE IF decoded THEN <<"decoded", by>>
                         ELSE NoPixbuf
    IN  IF is_svg
          THEN IF decoded
                 THEN [info |-> [info EXCEPT !.scale = <<scaled_desired_size, 1000>>,
                                             !.pixbuf = <<"decoded", by>>],
                       ok |-> TRUE]
                 ELSE [info |-> [info EXCEPT !.scale = <<scaled_desired_size, 1000>>,
                                             !.load_error = TRUE],
                       ok |-> FALSE]
        ELSE IF source_pixbuf = NoPixbuf
          THEN [info |-> [info EXCEPT !.scale = dir_scale, !.load_error = TRUE],
                ok |-> FALSE]
        ELSE [info |-> [info EXCEPT !.scale = scale,
                                    !.pixbuf = IF scale[1] = scale[2]
                                                 THEN source_pixbuf
                                                 ELSE <<"scaled", by>>],
              ok |-> TRUE]

\* apply_emblems on info, whose emblem_infos are the IconInfos emblems
\* (which have no emblems of their own): every emblem is loaded, and if one
\* loads the pixbuf is replaced by a composited copy.  The result is info
\* and emblems after the call.
apply_emblems(info, emblems, decoded, by) ==
  IF info.emblems_applied THEN [info |-> info, emblems |-> emblems]
  ELSE
    LET loaded == [i \in 1..Len(emblems) |->
                     load_scale_and_pixbuf(emblems[i], decoded, by)]
    IN  [info |-> IF \E i \in 1..Len(emblems) : loaded[i].ok
                    THEN [info EXCEPT !.pixbuf = <<"composited", by>>,
                                      !.emblems_applied = TRUE]
                    ELSE info,
         emblems |-> [i \in 1..Len(emblems) |-> loaded[i].info]]

\* A render that retries the load after a recorded error
ensure_scale_and_pixbuf_retry(info, emblems, decoded, by) ==
  LET applied(r, ok) == [info |-> r.info, emblems |-> r.emblems, ok |-> ok]
      load(r) == IF r.ok THEN applied(apply_emblems(r.info, emblems, decoded, by), TRUE)
                 ELSE [info |-> r.info, emblems |-> emblems, ok |-> FALSE]
  IN  IF info.pixbuf # NoPixbuf
        THEN applied(apply_emblems(info, emblems, decoded, by), TRUE)
      ELSE load(load_scale_and_pixbuf([info EXCEPT !.load_error = FALSE], decoded, by))

\* icon_info_ensure_scale_and_pixbuf (info, FALSE) on the IconInfo info
\* with the emblems emblems: info and emblems after, and the return value
ensure_scale_and_pixbuf(info, emblems, decoded, by) ==
  LET applied(r, ok) == [info |-> r.info, emblems |-> r.emblems, ok |-> ok]
      load(r) == IF r.ok THEN applied(apply_emblems(r.info, emblems, decoded, by), TRUE)
                 ELSE [info |-> r.info, emblems |-> emblems, ok |-> FALSE]
  IN  IF info.pixbuf # NoPixbuf
        THEN applied(apply_emblems(info, emblems, decoded, by), TRUE)
      ELSE IF info.load_error
        THEN [info |-> info, emblems |-> emblems, ok |-> FALSE]
      ELSE load(load_scale_and_pixbuf(info, decoded, by))

\* The IconInfos of the emblems of IconInfo id
emblems_of(P, id) ==
  [i \in 1..Len(P.infos[id].emblem_infos) |-> P.infos[P.infos[id].emblem_infos[i]]]

\* icon_info_ensure_scale_and_pixbuf (icon_info, FALSE) run by the thread by
\* on the IconInfo at id.  The result is the state after and the function's
\* return value.
icon_info_ensure_scale_and_pixbuf_by(P, id, decoded, by) ==
  LET emblem_infos == P.infos[id].emblem_infos
      store(r) ==
        [P |-> [P EXCEPT !.infos =
                  [x \in DOMAIN @ |->
                     IF x = id THEN r.info
                     ELSE IF \E i \in 1..Len(emblem_infos) : emblem_infos[i] = x
                       THEN r.emblems[CHOOSE i \in 1..Len(emblem_infos) :
                                        emblem_infos[i] = x]
                     ELSE @[x]]],
         ok |-> r.ok]
  IN  store(ensure_scale_and_pixbuf(P.infos[id], emblems_of(P, id), decoded, by))

\* icon_info_ensure_scale_and_pixbuf (icon_info, FALSE) on the main thread
icon_info_ensure_scale_and_pixbuf(P, id, decoded) ==
  icon_info_ensure_scale_and_pixbuf_by(P, id, decoded, "main")

\* gtk_icon_info_load_icon; proxy_refs is the reference count of
\* icon_info->proxy_pixbuf before the call (0 when the pointer is NULL).
\* The result is the state after, whether a pixbuf is returned, and the
\* proxy's reference count after.
gtk_icon_info_load_icon(P, id, proxy_refs, decoded) ==
  LET e == icon_info_ensure_scale_and_pixbuf(P, id, decoded)
  IN  IF ~e.ok THEN [P |-> e.P, ok |-> FALSE, proxy_refs |-> proxy_refs]
      ELSE IF proxy_refs # 0
        THEN [P |-> e.P, ok |-> TRUE, proxy_refs |-> proxy_refs + 1]
      ELSE [P |-> g_object_ref(e.P, id), ok |-> TRUE, proxy_refs |-> 1]

\* gtk_icon_theme_load_icon_for_scale: the lookup with USE_BUILTIN added to
\* the flags, then gtk_icon_info_load_icon and the release of the IconInfo.
\* proxy_refs[id] is the reference count of the proxy pixbuf of id before
\* the call.  The result is the state after, the IconInfo looked up (0 for
\* NULL), whether it was made by this call, whether a pixbuf is returned,
\* the proxy's reference count after, and the error set.
gtk_icon_theme_load_icon_for_scale(P, d, tv_sec, new_id, icon_name, size, scale, flags, supports_svg, proxy_refs, decoded) ==
  LET loaded(r, l) ==
        [P |-> g_object_unref(l.P, r.info), info |-> r.info, created |-> r.created,
         ok |-> l.ok, proxy_refs |-> l.proxy_refs,
         error |-> IF l.ok THEN "none" ELSE "load"]
      found(r) ==
        IF r.info = 0
          THEN [P |-> r.P, info |-> 0, created |-> FALSE, ok |-> FALSE,
                proxy_refs |-> 0, error |-> "GTK_ICON_THEME_NOT_FOUND"]
          ELSE loaded(r, gtk_icon_info_load_icon(r.P, r.info, proxy_refs[r.info],
                                                 decoded))
  IN  found(choose_icon(P, d, tv_sec, new_id, <<icon_name>>, size, scale,
                        flags \cup {"USE_BUILTIN"}, supports_svg))

\* A destroy notify that only releases the proxy's reference
proxy_pixbuf_destroy_no_park(P, id) == g_object_unref(P, id)

\* A destroy notify that parks the IconInfo whether or not the primary
\* cache holds it
proxy_pixbuf_destroy_always_park(P, id) ==
  g_object_unref(ensure_in_lru_cache(P, id), id)

\* The destroy notify of the proxy pixbuf
proxy_pixbuf_destroy(P, id) ==
  LET P1 == IF P.infos[id].in_cache THEN ensure_in_lru_cache(P, id) ELSE P
  IN  g_object_unref(P1, id)

-----------------------------------------------------------------------------
(* Asynchronous rendering.  A GTask is a record: state is "none" (no task),   *)
(* "thread" (handed to g_task_run_in_thread, the worker has not run yet) or  *)
(* "returned" (g_task_return_* was called, the callback is pending on the    *)
(* main context); source_object is the id of the IconInfo the task holds a   *)
(* reference on; dup is the task data, the id of the copy the worker renders *)
(* (0 for NULL); result is what the task returned: "pixbuf" (a reference on  *)
(* the proxy pixbuf of the source object), "error" or "null".  The task of  *)
(* a symbolic render has is_symbolic set and keeps the colors asked for (the *)
(* AsyncSymbolicData); pixbuf is then the raster it returned.                *)

NoTask ==
  [state |-> "none", source_object |-> 0, dup |-> 0, result |-> "none",
   is_symbolic |-> FALSE, fg |-> <<>>, success_color |-> <<>>, warning_color |-> <<>>,
   error_color |-> <<>>, pixbuf |-> NoPixbuf]

\* If this returns TRUE, its safe to call icon_info_ensure_scale_and_pixbuf
\* without blocking
icon_info_get_pixbuf_ready(icon_info) ==
  \/ /\ icon_info.pixbuf # NoPixbuf
     /\ icon_info.emblem_infos = <<>> \/ icon_info.emblems_applied
  \/ icon_info.load_error

\* The lowest free slot of the heap
Alloc(P) == CHOOSE id \in FreeIds(P) : \A x \in FreeIds(P) : id <= x

\* What icon_info_dup copies of icon_info, the emblems apart
icon_info_dup_fields(icon_info) ==
  [icon_info_new(icon_info.dir_type, icon_info.dir_size, icon_info.dir_scale)
     EXCEPT !.filename = icon_info.filename,
            !.pixbuf = icon_info.pixbuf,
            !.cache_pixbuf = icon_info.cache_pixbuf,
            !.unscaled_scale = icon_info.unscaled_scale,
            !.threshold = icon_info.threshold,
            !.desired_size = icon_info.desired_size,
            !.desired_scale = icon_info.desired_scale,
            !.forced_size = icon_info.forced_size,
            !.emblems_applied = icon_info.emblems_applied]

RECURSIVE icon_info_dup_emblems(_, _, _)

\* The loop of icon_info_dup over emblem_infos from the i-th on (an emblem
\* has no emblems): the state after and the copies, in order
icon_info_dup_emblems(P, emblem_infos, i) ==
  IF i > Len(emblem_infos) THEN [P |-> P, ids |-> <<>>]
  ELSE
    LET rest(c, r) == [P |-> r.P, ids |-> <<c>> \o r.ids]
        copy(c) ==
          rest(c, icon_info_dup_emblems(
                    [P EXCEPT !.infos[c] = icon_info_dup_fields(P.infos[emblem_infos[i]])],
                    emblem_infos, i + 1))
    IN  copy(Alloc(P))

\* An icon_info_dup that shares the emblems of the original
icon_info_dup_shallow(P, id) ==
  LET dup == Alloc(P)
  IN  [P |-> [P EXCEPT !.infos = [x \in DOMAIN @ |->
                       IF x = dup
                         THEN [icon_info_dup_fields(P.infos[id])
                                 EXCEPT !.emblem_infos = P.infos[id].emblem_infos]
                       ELSE IF InSeq(P.infos[id].emblem_infos, x)
                         THEN [@[x] EXCEPT !.ref_count = @ + 1]
                       ELSE @[x]]],
       dup |-> dup]

\* icon_info_dup of the IconInfo at id: the state after and the id of the copy
icon_info_dup(P, id) ==
  LET dup == Alloc(P)
      done(r) == [P |-> [r.P EXCEPT !.infos[dup].emblem_infos = r.ids], dup |-> dup]
  IN  done(icon_info_dup_emblems(
             [P EXCEPT !.infos[dup] = icon_info_dup_fields(P.infos[id])],
             P.infos[id].emblem_infos, 1))

\* gtk_icon_info_load_icon_async on the IconInfo at id, whose proxy pixbuf
\* has proxy_refs references.  The result is the state after, the GTask, and
\* the proxy's reference count after (a pixbuf the task returns is held by
\* the task until the finish call hands it to the caller).
gtk_icon_info_load_icon_async(P, id, proxy_refs) ==
  LET \* task = g_task_new (icon_info, ...) references the source object
      ready(r) ==
        [P |-> r.P,
         task |-> [NoTask EXCEPT !.state = "returned", !.source_object = id,
                                 !.result = IF r.ok THEN "pixbuf" ELSE "error"],
         proxy_refs |-> r.proxy_refs]
      thread(r) ==
        [P |-> r.P,
         task |-> [NoTask EXCEPT !.state = "thread", !.source_object = id,
                                 !.dup = r.dup],
         proxy_refs |-> proxy_refs]
  IN  IF icon_info_get_pixbuf_ready(P.infos[id])
        THEN ready(gtk_icon_info_load_icon(g_object_ref(P, id), id, proxy_refs, FALSE))
        ELSE thread(icon_info_dup(g_object_ref(P, id), id))

\* load_icon_thread: the worker renders the task data
load_icon_thread(P, task, decoded) ==
  [P |-> icon_info_ensure_scale_and_pixbuf_by(P, task.dup, decoded, "thread").P,
   task |-> [task EXCEPT !.state = "returned", !.result = "null"]]

\* gtk_icon_info_load_icon_finish (icon_info, task) for the IconInfo at id.
\* The result is the state after, whether a pixbuf is returned, the proxy's
\* reference count after, and whether the g_assert failed (the program is
\* then aborted).
gtk_icon_info_load_icon_finish(P, id, task, proxy_refs) ==
  LET dup == P.infos[task.dup]
      \* copy results from dup back to icon_info
      copied == [P EXCEPT !.infos[id].emblems_applied = dup.emblems_applied,
                          !.infos[id].scale = dup.scale,
                          !.infos[id].pixbuf = dup.pixbuf,
                          !.infos[id].load_error = dup.load_error]
      load(r) == [P |-> r.P, ok |-> r.ok, proxy_refs |-> r.proxy_refs,
                  aborted |-> FALSE]
      finish(P1) ==
        IF ~icon_info_get_pixbuf_ready(P1.infos[id])
          THEN [P |-> P1, ok |-> FALSE, proxy_refs |-> proxy_refs, aborted |-> TRUE]
          ELSE load(gtk_icon_info_load_icon(P1, id, proxy_refs, FALSE))
  IN  IF task.dup = 0
        THEN [P |-> P, ok |-> task.result = "pixbuf", proxy_refs |-> proxy_refs,
              aborted |-> FALSE]
      ELSE IF ~icon_info_get_pixbuf_ready(P.infos[id]) THEN finish(copied)
      ELSE finish(P)

\* g_task_finalize: the task releases its source object and its task data
g_task_finalize(P, task) ==
  LET P1 == g_object_unref(P, task.source_object)
  IN  IF task.dup # 0 THEN g_object_unref(P1, task.dup) ELSE P1

\* gtk_icon_theme_lookup_by_gicon_for_scale of a GEmblemedIcon whose icon is
\* the themed icon base_names and whose one emblem is the themed icon
\* emblem_names.  The result is the state after and the IconInfo returned
\* (0 for NULL).
gtk_icon_theme_lookup_by_gicon(P, d, tv_sec, base_names, emblem_names, size, scale, flags) ==
  LET emblem(P1, info, r) ==
        [P |-> IF r.info # 0
                 THEN [r.P EXCEPT !.infos[info].emblem_infos = <<r.info>> \o @]
                 ELSE r.P,
         info |-> info]
      \* always force size for emblems
      emblems(P1, info) ==
        emblem(P1, info, choose_icon(P1, d, tv_sec, Alloc(P1), emblem_names, size \div 2,
                                     scale, flags \cup {"FORCE_SIZE"}, d.supports_svg))
      dup(base_info, r) == emblems(g_object_unref(r.P, base_info), r.dup)
      base(r) == IF r.info # 0 THEN dup(r.info, icon_info_dup(r.P, r.info))
                 ELSE [P |-> r.P, info |-> 0]
  IN  base(choose_icon(P, d, tv_sec, Alloc(P), base_names, size, scale, flags,
                       d.supports_svg))

-----------------------------------------------------------------------------
(* Symbolic rendering.  A GdkRGBA is <<red, green, blue, alpha>> with every  *)
(* channel a whole number of halves of the tolerance of rgba_matches (a      *)
(* channel value 1.0 is 20000), and <<>> is a NULL color.  An entry of the  *)
(* symbolic_pixbuf_cache list keeps the raster, the four colors and the      *)
(* reference count of its proxy pixbuf (0 when proxy_pixbuf is NULL).       *)

NoColor == <<>>

Transparent == <<0, 0, 0, 0>>

\* 0.0001, in the unit of the channels
Tolerance == 2

fabs(x) == IF x < 0 THEN 0 - x ELSE x

symbolic_pixbuf_cache_new(pixbuf, fg, success_color, warning_color, error_color, next) ==
  <<[pixbuf |-> pixbuf,
     fg |-> IF fg # NoColor THEN fg ELSE Transparent,
     success_color |-> IF success_color # NoColor THEN success_color ELSE Transparent,
     warning_color |-> IF warning_color # NoColor THEN warning_color ELSE Transparent,
     error_color |-> IF error_color # NoColor THEN error_color ELSE Transparent,
     proxy_refs |-> 0]>> \o next

\* A comparison that takes a difference of exactly the tolerance as a match
rgba_matches_inclusive(a, b) ==
  LET a1 == IF a = NoColor THEN Transparent ELSE a
  IN  \A i \in 1..4 : fabs(a1[i] - b[i]) <= Tolerance

rgba_matches(a, b) ==
  LET a1 == IF a = NoColor THEN Transparent ELSE a
  IN  \A i \in 1..4 : fabs(a1[i] - b[i]) < Tolerance

\* The position in the list of the entry returned, 0 for NULL
symbolic_pixbuf_cache_matches(cache, fg, success_color, warning_color, error_color) ==
  LET matches(i) == /\ rgba_matches(fg, cache[i].fg)
                    /\ rgba_matches(success_color, cache[i].success_color)
                    /\ rgba_matches(warning_color, cache[i].warning_color)
                    /\ rgba_matches(error_color, cache[i].error_color)
  IN  IF \E i \in 1..Len(cache) : matches(i)
        THEN CHOOSE i \in 1..Len(cache) : matches(i) /\ \A j \in 1..(i - 1) : ~matches(j)
        ELSE 0

gtk_icon_info_is_symbolic(icon_info) ==
  /\ icon_info.filename # NoFile
  /\ Len(icon_info.filename[2]) > 1
  /\ icon_info.filename[2][Len(icon_info.filename[2])] = "symbolic"
  /\ suffix_from_name(icon_info.filename) = ICON_SUFFIX_SVG

\* symbolic_cache_get_proxy for the i-th entry of the list of IconInfo id
symbolic_cache_get_proxy(P, id, i) ==
  IF P.infos[id].symbolic_pixbuf_cache[i].proxy_refs > 0
    THEN [P EXCEPT !.infos[id].symbolic_pixbuf_cache[i].proxy_refs = @ + 1]
    ELSE g_object_ref([P EXCEPT !.infos[id].symbolic_pixbuf_cache[i].proxy_refs = 1], id)

\* The destroy notify of the proxy pixbuf of the i-th entry
proxy_symbolic_pixbuf_destroy(P, id, i) ==
  LET P1 == [P EXCEPT !.infos[id].symbolic_pixbuf_cache[i].proxy_refs = 0]
      P2 == IF P.infos[id].in_cache THEN ensure_in_lru_cache(P1, id) ELSE P1
  IN  g_object_unref(P2, id)

\* g_object_unref of the proxy pixbuf of the entry of IconInfo id that holds
\* the raster pixbuf
unref_symbolic_proxy(P, id, pixbuf) ==
  LET cache == P.infos[id].symbolic_pixbuf_cache
      i == CHOOSE i \in 1..Len(cache) : cache[i].pixbuf = pixbuf
  IN  IF cache[i].proxy_refs > 1
        THEN [P EXCEPT !.infos[id].symbolic_pixbuf_cache[i].proxy_refs = @ - 1]
        ELSE proxy_symbolic_pixbuf_destroy(P, id, i)

\* apply_emblems_to_pixbuf on a pixbuf of an IconInfo whose emblem_infos are
\* the IconInfos emblems: the emblems after, and whether a composite is
\* returned
apply_emblems_to_pixbuf(emblems, decoded, by) ==
  LET done(loaded) == [emblems |-> [i \in 1..Len(emblems) |-> loaded[i].info],
                       icon |-> \E i \in 1..Len(emblems) : loaded[i].ok]
  IN  done([i \in 1..Len(emblems) |-> load_scale_and_pixbuf(emblems[i], decoded, by)])

\* _gtk_icon_info_load_symbolic_internal on the IconInfo at id, run by the
\* thread by; decoded is whether the file loads and the codec decodes it.
\* The result is the state after and the raster returned (NoPixbuf for
\* NULL): with use_cache a proxy of an entry of the list, the entry's raster
\* standing for it, and without the raster rendered.
_gtk_icon_info_load_symbolic_internal(P, id, fg, success_color, warning_color, error_color, use_cache, decoded, by) ==
  LET icon_info == P.infos[id]
      emblem_infos == icon_info.emblem_infos
      pixbuf == <<"symbolic", by, fg, success_color, warning_color, error_color>>
      rendered(r) ==
        [P EXCEPT !.infos =
           [x \in DOMAIN @ |->
              IF x = id
                THEN [@[x] EXCEPT
                        !.symbolic_pixbuf_size = TRUE,
                        !.symbolic_pixbuf_cache =
                           IF use_cache
                             THEN symbolic_pixbuf_cache_new(pixbuf, fg, success_color,
                                                            warning_color, error_color, @)
                             ELSE @]
              ELSE IF InSeq(emblem_infos, x)
                THEN r.emblems[CHOOSE i \in 1..Len(emblem_infos) : emblem_infos[i] = x]
              ELSE @[x]]]
      render(P1) == [P |-> IF use_cache THEN symbolic_cache_get_proxy(P1, id, 1) ELSE P1,
                     pixbuf |-> pixbuf]
      miss == IF decoded
                THEN render(rendered(apply_emblems_to_pixbuf(emblems_of(P, id), decoded, by)))
                ELSE [P |-> P, pixbuf |-> NoPixbuf]
      hit(i) == IF use_cache /\ i # 0
                  THEN [P |-> symbolic_cache_get_proxy(P, id, i),
                        pixbuf |-> icon_info.symbolic_pixbuf_cache[i].pixbuf]
                  ELSE miss
  IN  hit(symbolic_pixbuf_cache_matches(icon_info.symbolic_pixbuf_cache, fg, success_color,
                                        warning_color, error_color))

\* gtk_icon_info_load_symbolic on a symbolic IconInfo
gtk_icon_info_load_symbolic(P, id, fg, success_color, warning_color, error_color, decoded) ==
  _gtk_icon_info_load_symbolic_internal(P, id, fg, success_color, warning_color, error_color, TRUE,
                         decoded, "main")

\* gtk_icon_info_load_symbolic_async on a symbolic IconInfo: the state after
\* and the GTask
gtk_icon_info_load_symbolic_async(P, id, fg, success_color, warning_color, error_color) ==
  LET task == [NoTask EXCEPT !.source_object = id, !.is_symbolic = TRUE]
      cache == P.infos[id].symbolic_pixbuf_cache
      thread(r) ==
        [P |-> r.P,
         task |-> [task EXCEPT !.state = "thread", !.dup = r.dup, !.fg = fg,
                               !.success_color = success_color,
                               !.warning_color = warning_color,
                               !.error_color = error_color]]
      hit(P1, i) ==
        IF i # 0
          THEN [P |-> symbolic_cache_get_proxy(P1, id, i),
                task |-> [task EXCEPT !.state = "returned", !.result = "pixbuf",
                                      !.pixbuf = cache[i].pixbuf]]
          ELSE thread(icon_info_dup(P1, id))
  IN  hit(g_object_ref(P, id),
          symbolic_pixbuf_cache_matches(cache, fg, success_color, warning_color,
                                        error_color))

\* load_symbolic_icon_thread: the worker renders on the task data
load_symbolic_icon_thread(P, task, decoded) ==
  LET returned(r) ==
        [P |-> r.P,
         task |-> [task EXCEPT !.state = "returned",
                               !.result = IF r.pixbuf # NoPixbuf THEN "pixbuf" ELSE "error",
                               !.pixbuf = r.pixbuf]]
  IN  returned(_gtk_icon_info_load_symbolic_internal(P, task.dup, task.fg, task.success_color,
                                      task.warning_color, task.error_color, FALSE,
                                      decoded, "thread"))

\* A finish that adds the worker's raster without looking for an entry that
\* was added since the request started
gtk_icon_info_load_symbolic_finish_always_insert(P, id, task) ==
  LET new == [P EXCEPT !.infos[id].symbolic_pixbuf_cache =
                          symbolic_pixbuf_cache_new(task.pixbuf, task.fg,
                                                    task.success_color,
                                                    task.warning_color,
                                                    task.error_color, @)]
  IN  IF task.dup # 0 /\ task.result = "pixbuf"
        THEN [P |-> symbolic_cache_get_proxy(new, id, 1), pixbuf |-> task.pixbuf]
        ELSE [P |-> P, pixbuf |-> task.pixbuf]

\* gtk_icon_info_load_symbolic_finish (icon_info, task) for the IconInfo at
\* id: the state after and the raster whose proxy is returned (NoPixbuf for
\* NULL)
gtk_icon_info_load_symbolic_finish(P, id, task) ==
  LET cache == P.infos[id].symbolic_pixbuf_cache
      new == [P EXCEPT !.infos[id].symbolic_pixbuf_cache =
                          symbolic_pixbuf_cache_new(task.pixbuf, task.fg,
                                                    task.success_color,
                                                    task.warning_color,
                                                    task.error_color, @)]
      found(i) ==
        IF i = 0 THEN [P |-> symbolic_cache_get_proxy(new, id, 1), pixbuf |-> task.pixbuf]
        ELSE [P |-> symbolic_cache_get_proxy(P, id, i), pixbuf |-> cache[i].pixbuf]
  IN  IF task.dup # 0 /\ task.result = "pixbuf"
        THEN found(symbolic_pixbuf_cache_matches(cache, task.fg, task.success_color,
                                                 task.warning_color, task.error_color))
        ELSE [P |-> P, pixbuf |-> task.pixbuf]

gtk_icon_theme_set_custom_theme(P, theme_name) ==
  IF P.current_theme # theme_name
    THEN do_theme_change([P EXCEPT !.current_theme = theme_name])
    ELSE P

gtk_icon_theme_set_search_path(P, path) ==
  do_theme_change([P EXCEPT !.search_path = path])

gtk_icon_theme_append_search_path(P, path) ==
  do_theme_change([P EXCEPT !.search_path = @ \o <<path>>])

gtk_icon_theme_prepend_search_path(P, path) ==
  do_theme_change([P EXCEPT !.search_path = <<path>> \o @])

gtk_icon_theme_rescan_if_needed(P, d, tv_sec) ==
  LET P1 == rescan_themes(P, d, tv_sec)
  IN  IF rescan_changed(P, d) THEN do_theme_change(P1) ELSE P1

-----------------------------------------------------------------------------
(* The state after construction (gtk_icon_theme_init), with the theme name  *)
(* of the settings, and the state after the first load                      *)

Heap(n) == [id \in 1..n |-> Freed]

gtk_icon_theme_init(theme_name, heap_size) ==
  [info_cache |-> {}, info_cache_lru |-> <<>>, current_theme |-> theme_name,
   search_path |-> <<RootPath>>,
   themes_valid |-> FALSE, loading_themes |-> FALSE, themes |-> <<>>,
   unthemed_icons |-> <<>>, last_stat_time |-> 0, dir_mtimes |-> <<>>,
   theme_changed_idle |-> FALSE, infos |-> Heap(heap_size)]

NoRet == [op |-> "none"]

MaxTasks == 2

InitEnv(d, heap_size) ==
  /\ tasks = [t \in 1..MaxTasks |-> NoTask]
  /\ disk = d
  /\ now = 0
  /\ handles = [id \in 1..heap_size |-> 0]
  /\ proxies = [id \in 1..heap_size |-> 0]
  /\ emitted = 0
  /\ ret = NoRet
  /\ park_order = <<>>

InitProg(P) ==
  /\ info_cache = P.info_cache
  /\ info_cache_lru = P.info_cache_lru
  /\ current_theme = P.current_theme
  /\ search_path = P.search_path
  /\ themes_valid = P.themes_valid
  /\ loading_themes = P.loading_themes
  /\ themes = P.themes
  /\ unthemed_icons = P.unthemed_icons
  /\ last_stat_time = P.last_stat_time
  /\ dir_mtimes = P.dir_mtimes
  /\ theme_changed_idle = P.theme_changed_idle
  /\ infos = P.infos

EnvUnchanged == UNCHANGED <<disk, now, handles, proxies, emitted,
                            icon_theme_builtin_icons,
                            tasks>>

ProgUnchanged == UNCHANGED <<info_cache, info_cache_lru, current_theme, search_path, themes_valid,
                             loading_themes, themes, unthemed_icons, last_stat_time,
                             dir_mtimes, theme_changed_idle, infos, park_order>>

\* A disk with the given descriptors and loose files, every path present
Disk(desc, unthemed) ==
  [desc |-> desc, unthemed |-> unthemed, supports_svg |-> TRUE,
   mtime |-> [p \in DOMAIN desc \cup {RootPath} |-> 1]]

Descriptor(dirs, inherits) == [has_dirs |-> TRUE, dirs |-> dirs, inherits |-> inherits]

-----------------------------------------------------------------------------
(* The operations of the machine.  handles[id] counts the references that   *)
(* callers hold on IconInfo id, proxies[id] the references they hold on its *)
(* proxy pixbuf; ret records the last call and what it returned.            *)

MaxHandles == 2
MaxPixbufRefs == 1

\* The allocator hands out the lowest free slot
NewId == IF FreeIds(Prog) = {} THEN 0
         ELSE CHOOSE id \in FreeIds(Prog) : \A x \in FreeIds(Prog) : id <= x

\* gtk_icon_theme_choose_icon_for_scale: a caller looks up icon_names and
\* keeps the reference returned
ChooseIcon(icon_names, size, scale, flags) ==
  \E r \in {choose_icon(Prog, disk, now, NewId, icon_names, size, scale, flags,
                        disk.supports_svg)} :
      /\ r.created => NewId # 0
      /\ r.info # 0 => handles[r.info] < MaxHandles
      /\ SetProg(r.P)
      /\ handles' = IF r.info # 0 THEN [handles EXCEPT ![r.info] = @ + 1] ELSE handles
      /\ ret' = [op |-> "choose_icon", icon_names |-> icon_names, size |-> size,
                 scale |-> scale, flags |-> flags, info |-> r.info,
                 created |-> r.created,
                 icon |-> IF r.info # 0 THEN r.P.infos[r.info] ELSE Freed]
      /\ UNCHANGED <<disk, now, proxies, emitted, icon_theme_builtin_icons,
                     tasks>>

\* g_object_unref (icon_info) by a caller
UnrefInfo(id) ==
  /\ handles[id] > 0
  /\ SetProg(g_object_unref(Prog, id))
  /\ handles' = [handles EXCEPT ![id] = @ - 1]
  /\ ret' = [op |-> "unref_info", info |-> id]
  /\ UNCHANGED <<disk, now, proxies, emitted, icon_theme_builtin_icons,
                 tasks>>

\* The references that tasks hold on the proxy pixbuf of id
TaskPixbufs(id) ==
  Cardinality({t \in DOMAIN tasks : /\ tasks[t].state # "none"
                                    /\ tasks[t].source_object = id
                                    /\ ~tasks[t].is_symbolic
                                    /\ tasks[t].result = "pixbuf"})

\* The reference count of the proxy pixbuf of id
ProxyRefs(id) == proxies[id] + TaskPixbufs(id)

\* gtk_icon_info_load_icon by a caller that holds a reference on id
LoadIcon(id, decoded) ==
  \E r \in {gtk_icon_info_load_icon(Prog, id, ProxyRefs(id), decoded)} :
      /\ handles[id] > 0
      /\ r.proxy_refs - TaskPixbufs(id) <= MaxPixbufRefs
      /\ SetProg(r.P)
      /\ proxies' = [proxies EXCEPT ![id] = r.proxy_refs - TaskPixbufs(id)]
      /\ ret' = [op |-> "load_icon", info |-> id, ok |-> r.ok]
      /\ UNCHANGED <<disk, now, handles, emitted, icon_theme_builtin_icons,
                     tasks>>

\* g_object_unref (pixbuf) by a caller; the last reference runs
\* proxy_pixbuf_destroy
UnrefPixbuf(id) ==
  \E P \in {IF ProxyRefs(id) = 1 THEN proxy_pixbuf_destroy(Prog, id) ELSE Prog} :
      /\ proxies[id] > 0
      /\ proxies' = [proxies EXCEPT ![id] = @ - 1]
      /\ SetProgParking(P, IF ProxyRefs(id) = 1 /\ infos[id].in_cache THEN id ELSE 0)
      /\ ret' = [op |-> "unref_pixbuf", info |-> id,
                 dropped |-> {x \in DOMAIN infos :
                                InSeq(info_cache_lru, x) /\ ~InSeq(P.info_cache_lru, x)},
                 moved |-> /\ ProxyRefs(id) = 1
                           /\ infos[id].in_cache
                           /\ InSeq(info_cache_lru, id)]
      /\ UNCHANGED <<disk, now, handles, emitted, icon_theme_builtin_icons,
                     tasks>>

\* gtk_icon_info_load_icon_async by a caller that holds a reference on id
LoadIconAsync(id) ==
  \E t \in DOMAIN tasks :
      /\ handles[id] > 0
      /\ tasks[t].state = "none"
      /\ \A u \in 1..(t - 1) : tasks[u].state # "none"
      /\ \/ icon_info_get_pixbuf_ready(infos[id])
         \/ Cardinality(FreeIds(Prog)) > Len(infos[id].emblem_infos)
      /\ \E r \in {gtk_icon_info_load_icon_async(Prog, id, ProxyRefs(id))} :
            /\ SetProg(r.P)
            /\ tasks' = [tasks EXCEPT ![t] = r.task]
      /\ ret' = [op |-> "load_icon_async", info |-> id, task |-> t]
      /\ UNCHANGED <<disk, now, handles, proxies, emitted, icon_theme_builtin_icons>>

\* The worker thread runs load_icon_thread on task t
LoadIconThread(t, decoded) ==
  /\ tasks[t].state = "thread" /\ ~tasks[t].is_symbolic
  /\ \E r \in {load_icon_thread(Prog, tasks[t], decoded)} :
        /\ SetProg(r.P)
        /\ tasks' = [tasks EXCEPT ![t] = r.task]
  /\ ret' = [op |-> "load_icon_thread", task |-> t]
  /\ UNCHANGED <<disk, now, handles, proxies, emitted, icon_theme_builtin_icons>>

\* The main context runs the callback of task t, which calls
\* gtk_icon_info_load_icon_finish; the caller keeps the pixbuf returned
\* unless it holds MaxPixbufRefs already, and the task is then freed.  A
\* failed g_assert ends the program.
LoadIconFinish(t) ==
  /\ tasks[t].state = "returned" /\ ~tasks[t].is_symbolic
  /\ \E id \in {tasks[t].source_object} :
      \E r \in {gtk_icon_info_load_icon_finish(Prog, id, tasks[t], ProxyRefs(id))} :
        /\ SetProg(IF r.aborted THEN r.P ELSE g_task_finalize(r.P, tasks[t]))
        /\ tasks' = [tasks EXCEPT ![t] = IF r.aborted THEN @ ELSE NoTask]
        /\ proxies' = [proxies EXCEPT ![id] = IF r.ok /\ @ < MaxPixbufRefs
                                                THEN @ + 1 ELSE @]
        /\ ret' = [op |-> IF r.aborted THEN "abort" ELSE "load_icon_finish",
                   info |-> id, task |-> t, ok |-> r.ok]
  /\ UNCHANGED <<disk, now, handles, emitted, icon_theme_builtin_icons>>

\* gtk_icon_theme_lookup_by_gicon of an emblemed icon: the caller keeps the
\* reference returned
LookupByGIcon(base_names, emblem_names, size, scale, flags) ==
  /\ Cardinality(FreeIds(Prog)) >= 2
  /\ \E r \in {gtk_icon_theme_lookup_by_gicon(Prog, disk, now, base_names, emblem_names,
                                               size, scale, flags)} :
        /\ SetProg(r.P)
        /\ handles' = IF r.info # 0 THEN [handles EXCEPT ![r.info] = @ + 1] ELSE handles
        /\ ret' = [op |-> "lookup_by_gicon", info |-> r.info]
  /\ UNCHANGED <<disk, now, proxies, emitted, icon_theme_builtin_icons, tasks>>

\* gtk_icon_info_load_symbolic by a caller that holds a reference on the
\* symbolic IconInfo id; the caller draws the pixbuf returned and releases it
LoadSymbolic(id, fg, success_color, decoded) ==
  /\ handles[id] > 0
  /\ gtk_icon_info_is_symbolic(infos[id])
  /\ \E r \in {gtk_icon_info_load_symbolic(Prog, id, fg, success_color, NoColor, NoColor,
                                            decoded)} :
        /\ SetProg(IF r.pixbuf # NoPixbuf THEN unref_symbolic_proxy(r.P, id, r.pixbuf)
                   ELSE r.P)
        /\ ret' = [op |-> "load_symbolic", info |-> id, fg |-> fg,
                   success_color |-> success_color, pixbuf |-> r.pixbuf]
  /\ UNCHANGED <<disk, now, handles, proxies, emitted, icon_theme_builtin_icons, tasks>>

\* gtk_icon_info_load_symbolic_async by a caller that holds a reference on
\* the symbolic IconInfo id
LoadSymbolicAsync(id, fg, success_color) ==
  \E t \in DOMAIN tasks :
      /\ handles[id] > 0
      /\ gtk_icon_info_is_symbolic(infos[id])
      /\ tasks[t].state = "none"
      /\ \A u \in 1..(t - 1) : tasks[u].state # "none"
      /\ Cardinality(FreeIds(Prog)) > Len(infos[id].emblem_infos)
      /\ \E r \in {gtk_icon_info_load_symbolic_async(Prog, id, fg, success_color, NoColor,
                                                      NoColor)} :
            /\ SetProg(r.P)
            /\ tasks' = [tasks EXCEPT ![t] = r.task]
      /\ ret' = [op |-> "load_symbolic_async", info |-> id, task |-> t]
      /\ UNCHANGED <<disk, now, handles, proxies, emitted, icon_theme_builtin_icons>>

\* The worker thread runs load_symbolic_icon_thread on task t
LoadSymbolicThread(t, decoded) ==
  /\ tasks[t].state = "thread" /\ tasks[t].is_symbolic
  /\ \E r \in {load_symbolic_icon_thread(Prog, tasks[t], decoded)} :
        /\ SetProg(r.P)
        /\ tasks' = [tasks EXCEPT ![t] = r.task]
  /\ ret' = [op |-> "load_symbolic_thread", task |-> t]
  /\ UNCHANGED <<disk, now, handles, proxies, emitted, icon_theme_builtin_icons>>

\* The main context runs the callback of task t, which calls
\* gtk_icon_info_load_symbolic_finish, draws the pixbuf returned and releases
\* it; the task is then freed
LoadSymbolicFinish(t) ==
  /\ tasks[t].state = "returned" /\ tasks[t].is_symbolic
  /\ \E id \in {tasks[t].source_object} :
      \E r \in {gtk_icon_info_load_symbolic_finish(Prog, id, tasks[t])} :
        /\ SetProg(g_task_finalize(IF r.pixbuf # NoPixbuf
                                     THEN unref_symbolic_proxy(r.P, id, r.pixbuf)
                                     ELSE r.P,
                                   tasks[t]))
        /\ ret' = [op |-> "load_symbolic_finish", info |-> id, task |-> t,
                   fg |-> tasks[t].fg, success_color |-> tasks[t].success_color,
                   pixbuf |-> r.pixbuf,
                   worker |-> IF tasks[t].dup # 0 /\ tasks[t].result = "pixbuf"
                                THEN tasks[t].pixbuf
                                ELSE NoPixbuf]
  /\ tasks' = [tasks EXCEPT ![t] = NoTask]
  /\ UNCHANGED <<disk, now, handles, proxies, emitted, icon_theme_builtin_icons>>

SetCustomTheme(theme_name) ==
  /\ \E P \in {gtk_icon_theme_set_custom_theme(Prog, theme_name)} : SetProg(P)
  /\ ret' = [op |-> "set_custom_theme", theme_name |-> theme_name]
  /\ EnvUnchanged

RescanIfNeeded ==
  /\ SetProg(gtk_icon_theme_rescan_if_needed(Prog, disk, now))
  /\ ret' = [op |-> "rescan_if_needed", changed |-> rescan_changed(Prog, disk)]
  /\ EnvUnchanged

MaxEmitted == 1
MaxTime == 6
MaxMtime == 2

\* The main loop runs the idle source: the changed signal is emitted
ThemeChangedIdle ==
  /\ theme_changed_idle
  /\ emitted < MaxEmitted
  /\ theme_changed_idle' = FALSE
  /\ emitted' = emitted + 1
  /\ ret' = [op |-> "theme_changed_idle"]
  /\ UNCHANGED <<info_cache, info_cache_lru, current_theme, search_path, themes_valid,
                 loading_themes, themes, unthemed_icons, last_stat_time, dir_mtimes,
                 infos, disk, now, handles, proxies, icon_theme_builtin_icons, tasks,
                 park_order>>

\* Time passes
Tick(dt) ==
  /\ now + dt <= MaxTime
  /\ now' = now + dt
  /\ ret' = [op |-> "tick"]
  /\ ProgUnchanged
  /\ UNCHANGED <<disk, handles, proxies, emitted, icon_theme_builtin_icons,
                 tasks>>

\* Something else writes to a tracked directory
Touch(path) ==
  /\ path \in DOMAIN disk.mtime
  /\ disk.mtime[path] < MaxMtime
  /\ disk' = [disk EXCEPT !.mtime[path] = @ + 1]
  /\ ret' = [op |-> "touch"]
  /\ ProgUnchanged
  /\ UNCHANGED <<now, handles, proxies, emitted, icon_theme_builtin_icons, tasks>>

-----------------------------------------------------------------------------
(* The search over themes and candidate names: the theme "Foo" inherits     *)
(* "Bar" and the default theme in either order, each theme has one          *)
(* directory holding some of the names, and built-in icons may have been    *)
(* registered before the first lookup.                                      *)

FooName == <<"foo">>
FooSymbolic == <<"foo", "symbolic">>
BarName == <<"bar">>

LookupSizes == {24}

\* The lookups made: <<candidate names, flags>>
LookupRequests ==
  ({<<FooName>>, <<FooSymbolic, FooName>>, <<FooName, BarName>>, <<BarName, FooName>>}
     \X {{}, {"USE_BUILTIN"}})
  \cup ({<<FooSymbolic>>} \X {{"USE_BUILTIN"}})
  \cup ({<<FooName>>, <<FooName, BarName>>} \X {{"NO_SVG"}})

\* The contents a theme directory may have
FooContents ==
  {<<>>, (FooName :> ICON_SUFFIX_PNG), (BarName :> ICON_SUFFIX_PNG)}
BarContents ==
  {<<>>, (FooSymbolic :> ICON_SUFFIX_PNG),
   (FooName :> ICON_SUFFIX_SVG) @@ (BarName :> ICON_SUFFIX_PNG)}
HicolorContents ==
  {<<>>, (FooName :> ICON_SUFFIX_PNG), (FooSymbolic :> ICON_SUFFIX_PNG)}

\* The built-in registrations made before the first lookup
LookupBuiltins ==
  {<<>>,
   add_builtin_icon(<<>>, FooName, 24, <<"builtin", FooName>>),
   add_builtin_icon(<<>>, FooSymbolic, 24, <<"builtin", FooSymbolic>>)}

LookupDisk(foo, bar, hicolor, inherits) ==
  Disk(("Foo" :> Descriptor(<<IconThemeDir(ICON_THEME_DIR_THRESHOLD, 22, 22, 22, 2, 1,
                                           "Foo/22", foo)>>, inherits))
       @@ ("Bar" :> Descriptor(<<IconThemeDir(ICON_THEME_DIR_FIXED, 24, 24, 24, 2, 1,
                                              "Bar/24", bar)>>, <<>>))
       @@ (DEFAULT_THEME_NAME :>
             Descriptor(<<IconThemeDir(ICON_THEME_DIR_FIXED, 48, 48, 48, 2, 1,
                                       "hicolor/48", hicolor)>>, <<>>)),
       <<>>)

MaxLookupInfos == 1

InitLookup ==
  /\ \E foo \in FooContents, bar \in BarContents, hicolor \in HicolorContents,
        inherits \in {<<"Bar", DEFAULT_THEME_NAME>>, <<DEFAULT_THEME_NAME, "Bar">>} :
       InitEnv(LookupDisk(foo, bar, hicolor, inherits), MaxLookupInfos)
  /\ icon_theme_builtin_icons \in LookupBuiltins
  /\ InitProg(gtk_icon_theme_init("Foo", MaxLookupInfos))

NextLookup ==
  \/ \E r \in LookupRequests, size \in LookupSizes : ChooseIcon(r[1], size, 1, r[2])
  \/ \E id \in DOMAIN infos : UnrefInfo(id)

SpecLookup == InitLookup /\ [][NextLookup]_vars

-----------------------------------------------------------------------------
(* The cache, the reference counts and invalidation: the theme "Foo" has    *)
(* two directories holding foo.png, callers look the icon up at two sizes,  *)
(* render it, release what they hold, switch between the themes "Foo" and   *)
(* "Bar", and the disk changes while time passes.                           *)

MaxInfos == 2

TickSteps == {6}

CacheSizes == {24}

CacheThemes == {"Foo", "Bar"}

CacheDisk ==
  Disk(("Foo" :> Descriptor(<<IconThemeDir(ICON_THEME_DIR_THRESHOLD, 22, 22, 22, 2, 1,
                                           "Foo/22", (FooName :> ICON_SUFFIX_PNG)),
                              IconThemeDir(ICON_THEME_DIR_FIXED, 48, 48, 48, 2, 1,
                                           "Foo/48", (FooName :> ICON_SUFFIX_PNG))>>,
                            <<>>))
       @@ ("Bar" :> Descriptor(<<IconThemeDir(ICON_THEME_DIR_FIXED, 24, 24, 24, 2, 1,
                                              "Bar/24", (FooName :> ICON_SUFFIX_PNG))>>,
                               <<>>)),
       <<>>)

Init ==
  /\ InitEnv(CacheDisk, MaxInfos)
  /\ icon_theme_builtin_icons = <<>>
  /\ InitProg(gtk_icon_theme_init("Foo", MaxInfos))

Next ==
  \/ \E size \in CacheSizes : ChooseIcon(<<FooName>>, size, 1, {})
  \/ \E id \in DOMAIN infos : UnrefInfo(id)
  \/ \E id \in DOMAIN infos, decoded \in BOOLEAN : LoadIcon(id, decoded)
  \/ \E id \in DOMAIN infos : UnrefPixbuf(id)
  \/ \E theme_name \in CacheThemes : SetCustomTheme(theme_name)
  \/ RescanIfNeeded
  \/ ThemeChangedIdle
  \/ \E dt \in TickSteps : Tick(dt)
  \/ \E path \in {"Foo"} : Touch(path)

Spec == Init /\ [][Next]_vars

-----------------------------------------------------------------------------
(* The LRU list under load: one caller at a time looks up the icon at the   *)
(* next size that has no cache entry, renders it and releases what it       *)
(* holds, in that order, which parks the IconInfo; the icon at a size in    *)
(* HotSizes is looked up, rendered and released at any time, in any order.  *)

LRUKeys == 33

HotSizes == {1}

LRUDisk ==
  Disk(("Foo" :> Descriptor(<<IconThemeDir(ICON_THEME_DIR_SCALABLE, 48, 1, 256, 2, 1,
                                           "Foo/scalable",
                                           (FooName :> ICON_SUFFIX_PNG))>>, <<>>)),
       <<>>)

InitLRU ==
  /\ InitEnv(LRUDisk, LRUKeys)
  /\ icon_theme_builtin_icons = <<>>
  /\ InitProg(gtk_icon_theme_init("Foo", LRUKeys))

\* The sizes that have an entry in the primary cache
CachedSizes == {infos[id].key.size : id \in info_cache}

\* Is a caller holding an IconInfo or a pixbuf of a size outside HotSizes
Busy ==
  \E id \in DOMAIN infos :
     /\ handles[id] > 0 \/ proxies[id] > 0
     /\ infos[id].key.size \notin HotSizes

\* Is id the IconInfo of the icon at a size in HotSizes
Hot(id) == infos[id].key.size \in HotSizes

NextLRU ==
  \/ /\ \A id \in DOMAIN infos : Hot(id) => handles[id] = 0
     /\ \E size \in HotSizes : ChooseIcon(<<FooName>>, size, 1, {})
  \/ \E size \in 1..LRUKeys :
       /\ ~Busy
       /\ size \notin CachedSizes
       /\ \A s \in 1..(size - 1) : s \in CachedSizes
       /\ ChooseIcon(<<FooName>>, size, 1, {})
  \/ \E id \in DOMAIN infos : LoadIcon(id, TRUE)
  \/ \E id \in DOMAIN infos : (Hot(id) \/ proxies[id] > 0) /\ UnrefInfo(id)
  \/ \E id \in DOMAIN infos : (Hot(id) \/ handles[id] = 0) /\ UnrefPixbuf(id)

SpecLRU == InitLRU /\ [][NextLRU]_vars

-----------------------------------------------------------------------------
(* Rendering on the main thread and on workers: callers look up an icon     *)
(* and a second icon with the first as its emblem, render them              *)
(* synchronously and asynchronously and release what they hold, in any      *)
(* order; the codec decodes or fails at every call.                         *)

AsyncInfos == 4

AsyncSize == 48

AsyncDisk ==
  Disk(("Foo" :> Descriptor(<<IconThemeDir(ICON_THEME_DIR_FIXED, 48, 48, 48, 2, 1,
                                           "Foo/48",
                                           (FooName :> ICON_SUFFIX_PNG)
                                             @@ (BarName :> ICON_SUFFIX_PNG))>>,
                            <<>>)),
       <<>>)

InitAsync ==
  /\ InitEnv(AsyncDisk, AsyncInfos)
  /\ icon_theme_builtin_icons = <<>>
  /\ InitProg(gtk_icon_theme_init("Foo", AsyncInfos))

\* Does a caller hold an IconInfo of the key icon_names
Held(icon_names) ==
  \E id \in DOMAIN infos : handles[id] > 0 /\ infos[id].key.icon_names = icon_names

\* A failed g_assert has not ended the program
Running == ret.op # "abort"

NextAsync ==
  \/ /\ Running /\ ~Held(<<BarName>>)
     /\ ChooseIcon(<<BarName>>, AsyncSize \div 2, 1, {"FORCE_SIZE"})
  \/ /\ Running /\ ~Held(<<>>)
     /\ LookupByGIcon(<<FooName>>, <<BarName>>, AsyncSize, 1, {})
  \/ \E id \in DOMAIN infos : Running /\ UnrefInfo(id)
  \/ \E id \in DOMAIN infos, decoded \in BOOLEAN : Running /\ LoadIcon(id, decoded)
  \/ \E id \in DOMAIN infos : Running /\ UnrefPixbuf(id)
  \/ \E id \in DOMAIN infos : Running /\ LoadIconAsync(id)
  \/ \E t \in DOMAIN tasks, decoded \in BOOLEAN : Running /\ LoadIconThread(t, decoded)
  \/ \E t \in DOMAIN tasks : Running /\ LoadIconFinish(t)

SpecAsync == InitAsync /\ [][NextAsync]_vars

-----------------------------------------------------------------------------
(* Symbolic rendering: a caller looks up a symbolic icon with an emblem and *)
(* renders it recolored, synchronously and asynchronously, with foreground  *)
(* colors that differ by less than, exactly and more than the tolerance    *)
(* and with the success color unset or transparent; it also renders it    *)
(* without recoloring, and the codec decodes or fails at every call.       *)

SymbolicInfos == 4

\* The foreground colors asked for: opaque, with these red channels
SymbolicReds == 0..3

Fg(red) == <<red, 0, 0, 20000>>

SymbolicDisk ==
  Disk(("Foo" :> Descriptor(<<IconThemeDir(ICON_THEME_DIR_FIXED, 48, 48, 48, 2, 1,
                                           "Foo/48",
                                           (FooSymbolic :> ICON_SUFFIX_SVG)
                                             @@ (BarName :> ICON_SUFFIX_PNG))>>,
                            <<>>)),
       <<>>)

InitSymbolic ==
  /\ InitEnv(SymbolicDisk, SymbolicInfos)
  /\ icon_theme_builtin_icons = <<>>
  /\ InitProg(gtk_icon_theme_init("Foo", SymbolicInfos))

\* The renders asked for: <<fg, success_color>>
SymbolicRequests ==
  {<<Fg(red), NoColor>> : red \in SymbolicReds} \cup {<<Fg(0), Transparent>>}

NextSymbolic ==
  \/ /\ ~Held(<<>>)
     /\ LookupByGIcon(<<FooSymbolic>>, <<BarName>>, AsyncSize, 1, {})
  \/ \E id \in DOMAIN infos, c \in SymbolicRequests, decoded \in BOOLEAN :
       LoadSymbolic(id, c[1], c[2], decoded)
  \/ \E id \in DOMAIN infos, c \in SymbolicRequests : LoadSymbolicAsync(id, c[1], c[2])
  \/ \E t \in DOMAIN tasks, decoded \in BOOLEAN : LoadSymbolicThread(t, decoded)
  \/ \E t \in DOMAIN tasks : LoadSymbolicFinish(t)

SpecSymbolic == InitSymbolic /\ [][NextSymbolic]_vars

-----------------------------------------------------------------------------
(* The workers: a caller looks up a symbolic icon with an emblem and        *)
(* renders it with and without recoloring, synchronously and               *)
(* asynchronously, in any order; the codec decodes or fails at every call. *)

WorkerInfos == 5

InitWorker ==
  /\ InitEnv(SymbolicDisk, WorkerInfos)
  /\ icon_theme_builtin_icons = <<>>
  /\ InitProg(gtk_icon_theme_init("Foo", WorkerInfos))

NextWorker ==
  \/ /\ Running /\ ~Held(<<>>)
     /\ LookupByGIcon(<<FooSymbolic>>, <<BarName>>, AsyncSize, 1, {})
  \/ /\ Running /\ ~Held(<<BarName>>)
     /\ ChooseIcon(<<BarName>>, AsyncSize \div 2, 1, {"FORCE_SIZE"})
  \/ \E id \in DOMAIN infos, decoded \in BOOLEAN :
       Running /\ LoadSymbolic(id, Fg(0), NoColor, decoded)
  \/ \E id \in DOMAIN infos : Running /\ LoadSymbolicAsync(id, Fg(0), NoColor)
  \/ \E t \in DOMAIN tasks, decoded \in BOOLEAN : Running /\ LoadSymbolicThread(t, decoded)
  \/ \E t \in DOMAIN tasks : Running /\ LoadSymbolicFinish(t)
  \/ \E id \in DOMAIN infos, decoded \in BOOLEAN : Running /\ LoadIcon(id, decoded)
  \/ \E id \in DOMAIN infos : Running /\ LoadIconAsync(id)
  \/ \E t \in DOMAIN tasks, decoded \in BOOLEAN : Running /\ LoadIconThread(t, decoded)
  \/ \E t \in DOMAIN tasks : Running /\ LoadIconFinish(t)

SpecWorker == InitWorker /\ [][NextWorker]_vars

-----------------------------------------------------------------------------
(* Claims about the search over themes and names, under SpecLookup *)

IsLookup == ret.op = "choose_icon"

\* The flag-derived permission to use SVG files, as choose_icon computes it
AllowSvg(flags) ==
  IF "NO_SVG" \in flags THEN FALSE
  ELSE IF "FORCE_SVG" \in flags THEN TRUE
  ELSE disk.supports_svg

\* theme has a directory on disk that holds icon_name in an allowed format
DirHas(theme, icon_name, flags) ==
  \E i \in 1..Len(theme.dirs) :
     best_suffix(theme_dir_get_icon_suffix(theme.dirs[i], icon_name), AllowSvg(flags))
       # ICON_SUFFIX_NONE

\* theme is the default theme, built-ins are asked for, and a built-in of
\* that name is registered or compiled in
BuiltinHas(theme, icon_name, flags) ==
  /\ theme.name = DEFAULT_THEME_NAME
  /\ "USE_BUILTIN" \in flags
  /\ \/ icon_name \in DOMAIN icon_theme_builtin_icons
     \/ \E i \in 1..Len(builtin_dirs) :
          best_suffix(theme_dir_get_icon_suffix(builtin_dirs[i], icon_name),
                      AllowSvg(flags)) # ICON_SUFFIX_NONE

Contains(theme, icon_name, flags) ==
  DirHas(theme, icon_name, flags) \/ BuiltinHas(theme, icon_name, flags)

\* icon is a file of one of theme's directories
FromDir(icon, theme) ==
  /\ icon.filename # NoFile
  /\ \E i \in 1..Len(theme.dirs) : theme.dirs[i].dir = icon.filename[1]

\* icon is a file of one of theme's directories or, for the default theme
\* when built-ins are asked for, a built-in
FromTheme(icon, theme, flags) ==
  \/ FromDir(icon, theme)
  \/ /\ icon.filename = NoFile
     /\ icon.cache_pixbuf # NoPixbuf
     /\ theme.name = DEFAULT_THEME_NAME
     /\ "USE_BUILTIN" \in flags

\* The name the icon was found under
ResolvedName(icon) ==
  IF icon.filename # NoFile THEN icon.filename[2] ELSE icon.cache_pixbuf[2]

\* The distance of theme's directory for the size looked up
ThemeDistance(theme) == theme_dir_size_difference(theme.dirs[1], ret.size, ret.scale)

\* C7 as stated: a lookup of one non-symbolic name returns a file of the
\* first theme, in theme order, that has a directory holding the name in an
\* allowed format.
C7_FirstThemeWithDirectory ==
  (IsLookup /\ Len(ret.icon_names) = 1 /\ ~has_symbolic_suffix(ret.icon_names[1]))
  => \A t \in 1..Len(themes) :
       ( /\ DirHas(themes[t], ret.icon_names[1], ret.flags)
         /\ \A u \in 1..(t - 1) : ~DirHas(themes[u], ret.icon_names[1], ret.flags) )
       => (ret.info # 0 /\ FromDir(ret.icon, themes[t]))

\* C7 amended: a lookup of one non-symbolic name returns an icon of the
\* first theme, in theme order, that has the name: in a directory in an
\* allowed format or, for the default theme when built-ins are asked for,
\* as a built-in; whatever later themes hold.
C7_FirstThemeWins ==
  (IsLookup /\ Len(ret.icon_names) = 1 /\ ~has_symbolic_suffix(ret.icon_names[1]))
  => \A t \in 1..Len(themes) :
       ( /\ Contains(themes[t], ret.icon_names[1], ret.flags)
         /\ \A u \in 1..(t - 1) : ~Contains(themes[u], ret.icon_names[1], ret.flags) )
       => /\ ret.info # 0
          /\ FromTheme(ret.icon, themes[t], ret.flags)
          /\ ResolvedName(ret.icon) = ret.icon_names[1]

\* A one-name lookup answered from a theme whose directory is off the size
\* looked up, while a later theme holds the name at exactly that size
C7_Witness ==
  /\ IsLookup /\ Len(ret.icon_names) = 1 /\ ret.info # 0
  /\ \E t \in 1..Len(themes) : \E u \in (t + 1)..Len(themes) :
       /\ FromDir(ret.icon, themes[t])
       /\ ThemeDistance(themes[t]) > 0
       /\ DirHas(themes[u], ret.icon_names[1], ret.flags)
       /\ ThemeDistance(themes[u]) = 0

\* C8: when the first candidate name ends in "-symbolic" and some theme
\* contains it, the lookup returns the icon of that name in the first theme,
\* in theme order, that contains it, whatever other candidate names earlier
\* themes contain.  (Built-ins count as contents of the default theme when
\* they are asked for.)
C8_SymbolicFirst ==
  (IsLookup /\ has_symbolic_suffix(ret.icon_names[1]))
  => \A t \in 1..Len(themes) :
       ( /\ Contains(themes[t], ret.icon_names[1], ret.flags)
         /\ \A u \in 1..(t - 1) : ~Contains(themes[u], ret.icon_names[1], ret.flags) )
       => /\ ret.info # 0
          /\ FromTheme(ret.icon, themes[t], ret.flags)
          /\ ResolvedName(ret.icon) = ret.icon_names[1]

\* A lookup of <<symbolic name, other name>> where an earlier theme holds
\* only the other name, answered with the symbolic name from a later theme
C8_Witness ==
  /\ IsLookup /\ Len(ret.icon_names) = 2 /\ has_symbolic_suffix(ret.icon_names[1])
  /\ ret.info # 0
  /\ ResolvedName(ret.icon) = ret.icon_names[1]
  /\ \E t \in 1..Len(themes) : \E u \in (t + 1)..Len(themes) :
       /\ Contains(themes[t], ret.icon_names[2], ret.flags)
       /\ ~Contains(themes[t], ret.icon_names[1], ret.flags)
       /\ FromDir(ret.icon, themes[u])

\* C9: a lookup of several names, the first not symbolic, returns the
\* earliest listed name that the earliest theme containing any of the names
\* contains, from that theme.
C9_ThemeMajor ==
  (IsLookup /\ Len(ret.icon_names) >= 2 /\ ~has_symbolic_suffix(ret.icon_names[1]))
  => \A t \in 1..Len(themes) : \A i \in 1..Len(ret.icon_names) :
       ( /\ Contains(themes[t], ret.icon_names[i], ret.flags)
         /\ \A j \in 1..(i - 1) : ~Contains(themes[t], ret.icon_names[j], ret.flags)
         /\ \A u \in 1..(t - 1) : \A j \in 1..Len(ret.icon_names) :
              ~Contains(themes[u], ret.icon_names[j], ret.flags) )
       => /\ ret.info # 0
          /\ FromTheme(ret.icon, themes[t], ret.flags)
          /\ ResolvedName(ret.icon) = ret.icon_names[i]

\* A lookup of two names answered with the second name from an earlier
\* theme although a later theme holds the first name
C9_Witness ==
  /\ IsLookup /\ Len(ret.icon_names) = 2 /\ ~has_symbolic_suffix(ret.icon_names[1])
  /\ ret.info # 0
  /\ ResolvedName(ret.icon) = ret.icon_names[2]
  /\ \E t \in 1..Len(themes) : \E u \in (t + 1)..Len(themes) :
       /\ FromDir(ret.icon, themes[t])
       /\ ~Contains(themes[t], ret.icon_names[1], ret.flags)
       /\ Contains(themes[u], ret.icon_names[1], ret.flags)

-----------------------------------------------------------------------------
(* Directory matching inside one theme: the theme "Foo" holds up to MaxDirs *)
(* directories that all contain foo.png, and theme_lookup_icon is applied   *)
(* to it for each requested size and scale.                                 *)

MaxDirs == 3

ReqSizes == {24, 48}
ReqScales == {1, 2}

\* <<type, size, min_size, max_size, threshold, scale>>
MatchDirAttrs ==
  {<<ICON_THEME_DIR_FIXED, 12, 12, 12, 2, 2>>,
   <<ICON_THEME_DIR_FIXED, 24, 24, 24, 2, 1>>,
   <<ICON_THEME_DIR_FIXED, 24, 24, 24, 2, 2>>,
   <<ICON_THEME_DIR_FIXED, 32, 32, 32, 2, 1>>,
   <<ICON_THEME_DIR_FIXED, 48, 48, 48, 2, 1>>,
   <<ICON_THEME_DIR_FIXED, 96, 96, 96, 2, 1>>,
   <<ICON_THEME_DIR_THRESHOLD, 22, 22, 22, 2, 1>>,
   <<ICON_THEME_DIR_THRESHOLD, 24, 24, 24, 2, 1>>,
   <<ICON_THEME_DIR_THRESHOLD, 32, 32, 32, 2, 1>>,
   <<ICON_THEME_DIR_THRESHOLD, 46, 46, 46, 2, 1>>,
   <<ICON_THEME_DIR_SCALABLE, 32, 16, 48, 2, 1>>,
   <<ICON_THEME_DIR_SCALABLE, 48, 8, 96, 2, 1>>,
   <<ICON_THEME_DIR_SCALABLE, 16, 8, 24, 2, 2>>,
   <<ICON_THEME_DIR_SCALABLE, 64, 64, 128, 2, 1>>}

MatchDir(a, path) ==
  IconThemeDir(a[1], a[2], a[3], a[4], a[5], a[6], path, (FooName :> ICON_SUFFIX_PNG))

DirPath(i) == <<"Foo/1", "Foo/2", "Foo/3", "Foo/4", "Foo/5">>[i]

InitMatch ==
  /\ \E n \in 1..MaxDirs : \E as \in [1..n -> MatchDirAttrs] :
       InitEnv(Disk(("Foo" :> Descriptor([i \in 1..n |-> MatchDir(as[i], DirPath(i))],
                                         <<>>)), <<>>), 1)
  /\ icon_theme_builtin_icons = <<>>
  /\ InitProg(load_themes(gtk_icon_theme_init("Foo", 1), disk, 0))

\* theme_lookup_icon of the first theme
ThemeLookupIcon(icon_name, size, scale) ==
  /\ themes_valid
  /\ ret' = [op |-> "theme_lookup_icon", icon_name |-> icon_name, size |-> size,
             scale |-> scale,
             info |-> theme_lookup_icon(themes[1], icon_name, size, scale, TRUE, FALSE)]
  /\ ProgUnchanged
  /\ EnvUnchanged

NextMatch ==
  \E size \in ReqSizes, scale \in ReqScales : ThemeLookupIcon(FooName, size, scale)

SpecMatch == InitMatch /\ [][NextMatch]_vars

-----------------------------------------------------------------------------
(* Claims about directory matching, under SpecMatch *)

ThemeDirs == {themes[1].dirs[i] : i \in 1..Len(themes[1].dirs)}

DirAttrs(dir) == <<dir.type, dir.size, dir.scale, dir.min_size, dir.max_size,
                   dir.threshold>>

InfoAttrs(info) == <<info.dir_type, info.dir_size, info.dir_scale, info.threshold>>

\* Is a ranked over b by compare_dir_matches, for the request (size, scale)
Better(a, b, size, scale) ==
  compare_dir_matches(a, theme_dir_size_difference(a, size, scale),
                      b, theme_dir_size_difference(b, size, scale), size, scale)

\* C2: when exactly one of two directories has distance 0, that one is the
\* better match, whichever is the new candidate and whichever the running best:
\* compare(a, 0, b, d > 0) is TRUE and compare(b, d > 0, a, 0) is FALSE.
C2_ExactBeatsNonExact ==
  \A a \in ThemeDirs, b \in ThemeDirs, size \in ReqSizes, scale \in ReqScales :
     (theme_dir_size_difference(a, size, scale) = 0
        /\ theme_dir_size_difference(b, size, scale) > 0)
     => (Better(a, b, size, scale) /\ ~Better(b, a, size, scale))

ScanOrders(n) == {f \in [1..n -> 1..n] : \A i, j \in 1..n : i # j => f[i] # f[j]}

\* C3: the directory kept by the scan of theme_lookup_icon has the same
\* matching attributes for every order in which the directories are scanned;
\* no two directories with different attributes are ranked over each other,
\* and the ranking has no cycle a > b > c > a.
C3_OrderIndependent ==
  /\ ret.op = "theme_lookup_icon" =>
       \A f \in ScanOrders(Len(themes[1].dirs)) :
          LET permuted == [themes[1] EXCEPT
                             !.dirs = [i \in 1..Len(themes[1].dirs) |->
                                         themes[1].dirs[f[i]]]]
              other == theme_lookup_icon(permuted, ret.icon_name, ret.size, ret.scale,
                                         TRUE, FALSE)
          IN  /\ (other = <<>>) = (ret.info = <<>>)
              /\ other # <<>> => InfoAttrs(other[1]) = InfoAttrs(ret.info[1])
  /\ \A size \in ReqSizes, scale \in ReqScales :
       /\ \A a \in ThemeDirs, b \in ThemeDirs :
            DirAttrs(a) # DirAttrs(b) =>
              ~(Better(a, b, size, scale) /\ Better(b, a, size, scale))
       /\ \A a \in ThemeDirs, b \in ThemeDirs, c \in ThemeDirs :
            ~(/\ Better(a, b, size, scale) /\ ~Better(b, a, size, scale)
              /\ Better(b, c, size, scale) /\ ~Better(c, b, size, scale)
              /\ Better(c, a, size, scale) /\ ~Better(a, c, size, scale))

\* C4: if a Fixed directory containing the icon has dirSize*dirScale equal to
\* requestedSize*requestedScale, the lookup selects a Fixed directory of that
\* exact pixel size, never a Threshold or Scalable one.
C4_ExactFixedWins ==
  (/\ ret.op = "theme_lookup_icon"
   /\ \E d \in ThemeDirs :
        /\ d.type = ICON_THEME_DIR_FIXED
        /\ ret.icon_name \in DOMAIN d.icons
        /\ d.size * d.scale = ret.size * ret.scale)
  => /\ ret.info # <<>>
     /\ ret.info[1].dir_type = ICON_THEME_DIR_FIXED
     /\ ret.info[1].dir_size * ret.info[1].dir_scale = ret.size * ret.scale

\* Do a and b tie on every criterion of compare_dir_matches
Ties(a, b, size, scale) ==
  LET da == theme_dir_size_difference(a, size, scale)
      db == theme_dir_size_difference(b, size, scale)
  IN  /\ (da = 0) = (db = 0)
      /\ (a.size >= size) = (b.size >= size)
      /\ da = db
      /\ (a.scale = scale) = (b.scale = scale)
      /\ (a.type = ICON_THEME_DIR_SCALABLE) = (b.type = ICON_THEME_DIR_SCALABLE)
      /\ abs(size * scale - a.size * a.scale) = abs(size * scale - b.size * b.scale)

\* C5: when two directories tie on every criterion, the one seen earlier in
\* the theme's directory order is the one selected: the selected directory
\* has no directory before it that ties with it.
C5_EarlierWinsTies ==
  (ret.op = "theme_lookup_icon" /\ ret.info # <<>>)
  => \A j \in 1..Len(themes[1].dirs) :
       themes[1].dirs[j].dir = ret.info[1].filename[1]
       => \A i \in 1..(j - 1) :
            ~Ties(themes[1].dirs[i], themes[1].dirs[j], ret.size, ret.scale)

\* C6: for a Scalable directory the distance is 0 exactly when
\* requestedSize*requestedScale lies in [minSize*dirScale, maxSize*dirScale];
\* below the interval it is the shortfall, above it the excess.
C6_ScalableDistance ==
  \A d \in ThemeDirs, size \in ReqSizes, scale \in ReqScales :
     d.type = ICON_THEME_DIR_SCALABLE =>
       LET s == size * scale
           lo == d.min_size * d.scale
           hi == d.max_size * d.scale
       IN  theme_dir_size_difference(d, size, scale) =
             (IF s < lo THEN lo - s ELSE IF s > hi THEN s - hi ELSE 0)

-----------------------------------------------------------------------------
(* Claims about the primary cache, under Spec *)

\* A tracked path changed on disk and the next lookup will notice
StaleOnDisk ==
  themes_valid /\ abs(now - last_stat_time) > 5 /\ rescan_changed(Prog, disk)

\* C1: a lookup whose key equals that of an IconInfo that a caller still
\* holds and that no invalidation has removed from the cache returns that
\* same IconInfo, unchanged, with a reference for the new handle; and when
\* two handles are held on a cached IconInfo, releasing one leaves the
\* object alive, unchanged and in the cache.
C1_SecondLookupSameObject ==
  [][ /\ \A id \in DOMAIN infos :
           ( /\ ret'.op = "choose_icon"
             /\ handles[id] > 0
             /\ id \in info_cache
             /\ ~StaleOnDisk
             /\ icon_info_key_equal(infos[id].key,
                                    [icon_names |-> ret'.icon_names, size |-> ret'.size,
                                     scale |-> ret'.scale, flags |-> ret'.flags]) )
           => /\ ret'.info = id
              /\ handles'[id] = handles[id] + 1
              /\ infos'[id].ref_count >= handles'[id]
              /\ [infos'[id] EXCEPT !.ref_count = 0] = [infos[id] EXCEPT !.ref_count = 0]
              /\ info_cache' = info_cache
      /\ \A id \in DOMAIN infos :
           ( /\ ret'.op = "unref_info"
             /\ ret'.info = id
             /\ handles[id] >= 2
             /\ id \in info_cache )
           => /\ infos'[id] = [infos[id] EXCEPT !.ref_count = @ - 1]
              /\ infos'[id].ref_count > 0
              /\ id \in info_cache'
    ]_vars

\* A second lookup has returned the IconInfo that a caller already held
C1_Witness ==
  /\ ret.op = "choose_icon"
  /\ ret.info # 0
  /\ ~ret.created
  /\ handles[ret.info] = 2
  /\ ret.info \in info_cache

-----------------------------------------------------------------------------
(* Claims about the LRU list, under SpecLRU *)

LRUIds == {info_cache_lru[i] : i \in 1..Len(info_cache_lru)}

\* C10: the LRU list never holds more than INFO_CACHE_LRU_SIZE entries; and
\* a step that parks an IconInfo while the list holds that many others takes
\* out of the list the one parked or re-parked least recently, drops the
\* list's reference to it, and leaves the other entries and their reference
\* counts alone.
C10_LruBound ==
  /\ [](Len(info_cache_lru) <= INFO_CACHE_LRU_SIZE)
  /\ [][ \A id \in DOMAIN infos :
           ( /\ ret'.op = "unref_pixbuf"
             /\ ret'.info = id
             /\ proxies[id] = 1
             /\ infos[id].in_cache
             /\ id \notin LRUIds
             /\ Len(info_cache_lru) = INFO_CACHE_LRU_SIZE )
           => LET oldest == park_order[Len(park_order)]
              IN  /\ Len(park_order) = INFO_CACHE_LRU_SIZE
                  /\ LRUIds' = (LRUIds \ {oldest}) \cup {id}
                  /\ infos'[oldest].ref_count = infos[oldest].ref_count - 1
                  /\ \A x \in LRUIds \ {oldest} :
                       infos'[x].ref_count = infos[x].ref_count
       ]_vars

\* An IconInfo has just been parked in a full list, which dropped another
\* one that had been re-parked after its first parking
C10_Witness ==
  /\ ret.op = "unref_pixbuf"
  /\ ret.dropped # {}
  /\ Len(info_cache_lru) = INFO_CACHE_LRU_SIZE
  /\ info_cache_lru[1] = ret.info

-----------------------------------------------------------------------------
(* Claims about cache and LRU membership, under Spec *)

Holds(id) ==
  handles[id] + (IF proxies[id] > 0 THEN 1 ELSE 0)
    + Cardinality({i \in 1..Len(info_cache_lru) : info_cache_lru[i] = id})

CacheHit(id) ==
  /\ ret'.op = "choose_icon"
  /\ ret'.info = id
  /\ ~ret'.created
  /\ handles'[id] = handles[id] + 1

\* C12: a lookup that hits the primary cache returns a new reference to the
\* cached IconInfo (the caller holds one handle more); if the IconInfo was
\* in the LRU list it is removed from the list and the list's reference is
\* released, so its reference count is unchanged, it stays alive and cached,
\* and nothing else changes; if it was not in the list, the list is
\* unchanged and the reference count is one higher.
C12_HitUnparks ==
  [][\A id \in DOMAIN infos :
       CacheHit(id) =>
         /\ id \in info_cache /\ id \in info_cache'
         /\ ~InSeq(info_cache_lru', id)
         /\ info_cache_lru' = RemoveFirst(info_cache_lru, id)
         /\ infos'[id].ref_count > 0
         /\ infos'[id].ref_count =
              IF InSeq(info_cache_lru, id) THEN infos[id].ref_count
              ELSE infos[id].ref_count + 1
         /\ infos' = [infos EXCEPT ![id].ref_count = infos'[id].ref_count]
         /\ info_cache' = info_cache]_vars

\* A lookup has hit an IconInfo that only the LRU list kept alive: the
\* caller's new handle is now the only reference
C12_Witness ==
  /\ ret.op = "choose_icon"
  /\ ret.info # 0
  /\ ~ret.created
  /\ handles[ret.info] = 1
  /\ proxies[ret.info] = 0
  /\ infos[ret.info].ref_count = 1
  /\ ~InSeq(info_cache_lru, ret.info)

\* C13 as stated: in every reachable state no member of the LRU list is
\* held by a caller's IconInfo handle or by a live proxy pixbuf.
C13_LruOnlyUnreferenced ==
  \A i \in 1..Len(info_cache_lru) :
     /\ handles[info_cache_lru[i]] = 0
     /\ proxies[info_cache_lru[i]] = 0

\* The step runs g_hash_table_remove_all: the theme is switched, or a
\* rescan (explicit, or the one a lookup makes after 5 seconds) finds a
\* tracked path changed
Invalidates ==
  \/ ret'.op = "set_custom_theme" /\ ret'.theme_name # current_theme
  \/ ret'.op = "rescan_if_needed" /\ rescan_changed(Prog, disk)
  \/ /\ ret'.op = "choose_icon"
     /\ themes_valid
     /\ abs(now - last_stat_time) > 5
     /\ rescan_changed(Prog, disk)

\* C14: in a step that does not invalidate the themes, an entry leaves the
\* primary cache only if the step releases the last reference to its
\* IconInfo (afterwards no handle, no proxy and no LRU hold is left and the
\* IconInfo is freed), an entry whose IconInfo keeps a reference stays, and
\* an entry whose IconInfo loses its last reference leaves.
C14_CacheDropsOnLastUnref ==
  [][~Invalidates =>
       \A id \in info_cache :
          /\ id \notin info_cache' =>
               /\ infos[id].ref_count > 0
               /\ infos'[id].ref_count = 0
               /\ Holds(id)' = 0
               /\ ~InSeq(info_cache_lru', id)
          /\ Holds(id)' > 0 => id \in info_cache'
          /\ infos'[id].ref_count = 0 => id \notin info_cache']_vars

\* The LRU list has dropped its hold on an IconInfo nothing else
\* referenced, and the entry has left the primary cache
C14_Witness ==
  /\ ret.op = "unref_pixbuf"
  /\ ret.dropped # {}
  /\ \A id \in ret.dropped : id \notin info_cache /\ infos[id].ref_count = 0
  /\ Cardinality(info_cache) = INFO_CACHE_LRU_SIZE

\* The step releases the last reference to the proxy pixbuf of IconInfo id
LastPixbufUnref(id) ==
  /\ ret'.op = "unref_pixbuf"
  /\ ret'.info = id
  /\ proxies[id] = 1
  /\ proxies'[id] = 0

\* After the step IconInfo id is alive, held by the LRU list, and a lookup
\* with its key finds it in the primary cache
ParkedAlive(id) ==
  /\ infos'[id].ref_count > 0
  /\ infos'[id] = [infos[id] EXCEPT !.ref_count = infos'[id].ref_count]
  /\ InSeq(info_cache_lru', id)
  /\ g_hash_table_lookup(Prog, infos[id].key)' = id

\* C15 as stated: when the last reference to a proxy pixbuf is released the
\* owning IconInfo is not destroyed, it is held by the LRU list afterwards
\* and a lookup with the same key hits it.
C15_ProxyReleaseParks ==
  [][\A id \in DOMAIN infos : LastPixbufUnref(id) => ParkedAlive(id)]_vars

\* C15 amended: the same, for an IconInfo that is still an entry of the
\* primary cache when the proxy is released; one that an invalidation has
\* dropped from the cache is not put on the list, it only loses the proxy's
\* reference and is freed if that was the last one.
C15_CachedProxyReleaseParks ==
  [][\A id \in DOMAIN infos :
       LastPixbufUnref(id) =>
         IF infos[id].in_cache
           THEN /\ ParkedAlive(id)
                /\ info_cache_lru'[1] = id
                /\ info_cache' = info_cache
           ELSE /\ ~InSeq(info_cache_lru', id)
                /\ info_cache_lru' = info_cache_lru
                /\ infos'[id] = IF infos[id].ref_count > 1
                                  THEN [infos[id] EXCEPT !.ref_count = @ - 1]
                                  ELSE Freed]_vars

\* The last proxy reference of a cached IconInfo has been released after
\* the caller's handle: only the LRU list holds the IconInfo now
C15_Witness ==
  /\ ret.op = "unref_pixbuf"
  /\ proxies[ret.info] = 0
  /\ handles[ret.info] = 0
  /\ infos[ret.info].ref_count = 1
  /\ infos[ret.info].in_cache
  /\ info_cache_lru = <<ret.info>>

-----------------------------------------------------------------------------
(* Claims about rendering, under SpecAsync *)

\* Is id a live IconInfo in the LoadFailed state
LoadFailed(id) == infos[id].ref_count > 0 /\ infos[id].load_error

\* A synchronous render of id fails whatever the codec would do, and changes
\* no IconInfo
SyncFailsUnchanged(id) ==
  \A decoded \in BOOLEAN :
     LET r == gtk_icon_info_load_icon(Prog, id, ProxyRefs(id), decoded)
     IN  ~r.ok /\ r.P.infos = infos

\* An asynchronous render of id returns the error at once, with no copy for
\* a worker, and changes nothing but the reference the task holds
AsyncFailsUnchanged(id) ==
  LET r == gtk_icon_info_load_icon_async(Prog, id, ProxyRefs(id))
  IN  /\ r.task.state = "returned" /\ r.task.result = "error" /\ r.task.dup = 0
      /\ r.P.infos = [infos EXCEPT ![id].ref_count = @ + 1]

FinishStep(t, id) ==
  /\ tasks[t].state = "returned" /\ tasks[t].dup # 0
  /\ tasks[t].source_object = id
  /\ ret'.op \in {"load_icon_finish", "abort"} /\ ret'.task = t
  /\ infos'[id].ref_count > 0

\* The render fields of the original IconInfo id are left as they are
RenderFieldsKept(id) ==
  /\ infos'[id].pixbuf = infos[id].pixbuf
  /\ infos'[id].scale = infos[id].scale
  /\ infos'[id].emblems_applied = infos[id].emblems_applied
  /\ infos'[id].load_error = infos[id].load_error

\* The original IconInfo id of task t had neither pixels nor an error when
\* the task started (the worker then computed the scale of the copy or
\* recorded an error on it), and has pixels or an error now
ResolvedSinceStart(t, id) ==
  /\ infos[tasks[t].dup].scale[1] >= 0 \/ infos[tasks[t].dup].load_error
  /\ infos[id].pixbuf # NoPixbuf \/ infos[id].load_error

\* C17: asynchronous reconciliation is first-resolution-wins.  If a render
\* gave the original IconInfo pixels or a load error between the start and
\* the finish of an asynchronous load, the finish step leaves the original's
\* pixels, scale, emblems-applied flag and load error as they are.
C17_FirstResolutionWins ==
  [][\A t \in DOMAIN tasks, id \in DOMAIN infos :
       FinishStep(t, id) /\ ResolvedSinceStart(t, id) => RenderFieldsKept(id)]_vars

-----------------------------------------------------------------------------
(* Claims about the workers, under SpecWorker *)

\* The step is the worker of task t running
WorkerStep(t) ==
  /\ tasks[t].state = "thread"
  /\ ret'.op \in {"load_icon_thread", "load_symbolic_thread"} /\ ret'.task = t

\* Is x the copy task t renders, or an emblem of that copy that nothing else
\* refers to: no caller, no cache entry, no other IconInfo
Private(t, x) ==
  \/ x = tasks[t].dup
  \/ /\ InSeq(infos[tasks[t].dup].emblem_infos, x)
     /\ handles[x] = 0 /\ proxies[x] = 0 /\ x \notin info_cache
     /\ ~InSeq(info_cache_lru, x)
     /\ \A u \in DOMAIN tasks : tasks[u].source_object # x
     /\ \A y \in DOMAIN infos : y # tasks[t].dup => ~InSeq(infos[y].emblem_infos, x)

\* C18: between the start of an asynchronous render and its finish, the
\* worker changes only its private snapshot: the copy of the IconInfo and
\* the copies of its emblems.  It changes no other IconInfo (so neither the
\* render fields nor the symbolic cache of the original), no other task,
\* and neither the themes, the primary cache nor the LRU list.
C18_WorkerPrivate ==
  [][\A t \in DOMAIN tasks :
       WorkerStep(t)
         => /\ \A x \in DOMAIN infos : infos'[x] # infos[x] => Private(t, x)
            /\ \A u \in DOMAIN tasks : u # t => tasks'[u] = tasks[u]
            /\ tasks'[t].source_object = tasks[t].source_object
            /\ tasks'[t].dup = tasks[t].dup
            /\ UNCHANGED <<info_cache, info_cache_lru, current_theme, search_path, themes_valid,
                           loading_themes, themes, unthemed_icons, last_stat_time,
                           dir_mtimes, theme_changed_idle, handles, proxies,
                           icon_theme_builtin_icons>>]_vars

\* A worker has rendered the copy of an emblem while the emblem of the
\* original, held in the primary cache, has no pixels
C18_Witness ==
  /\ ret.op \in {"load_icon_thread", "load_symbolic_thread"}
  /\ \E x \in DOMAIN infos, e \in info_cache :
        /\ InSeq(infos[tasks[ret.task].dup].emblem_infos, x)
        /\ InSeq(infos[tasks[ret.task].source_object].emblem_infos, e)
        /\ infos[x].pixbuf # NoPixbuf
        /\ infos[e].pixbuf = NoPixbuf

-----------------------------------------------------------------------------
(* Claims about the symbolic cache, under SpecSymbolic *)

\* Do the colors a and b, an unset color counted as transparent, differ by
\* less than 0.0001 in every channel
Within(a, b) ==
  LET a1 == IF a = NoColor THEN Transparent ELSE a
      b1 == IF b = NoColor THEN Transparent ELSE b
  IN  \A i \in 1..4 : a1[i] - b1[i] < Tolerance /\ b1[i] - a1[i] < Tolerance

\* The rasters and colors of the symbolic cache of IconInfo id, in order
Entries(info) ==
  [i \in 1..Len(info.symbolic_pixbuf_cache) |->
     [pixbuf |-> info.symbolic_pixbuf_cache[i].pixbuf,
      fg |-> info.symbolic_pixbuf_cache[i].fg,
      success_color |-> info.symbolic_pixbuf_cache[i].success_color,
      warning_color |-> info.symbolic_pixbuf_cache[i].warning_color,
      error_color |-> info.symbolic_pixbuf_cache[i].error_color]]

\* The step is a render request with the colors fg and success_color (the
\* other two unset) on IconInfo id: a synchronous request, or the finish of
\* an asynchronous one whose worker returned a raster
SymbolicRequest(id, fg, success_color) ==
  /\ \/ ret'.op = "load_symbolic"
     \/ /\ ret'.op = "load_symbolic_finish"
        /\ tasks[ret'.task].dup # 0 /\ tasks[ret'.task].result = "pixbuf"
  /\ ret'.info = id /\ ret'.fg = fg /\ ret'.success_color = success_color

\* C19 as stated: of two symbolic render requests on the same IconInfo whose
\* colors differ by less than 1e-4 in every channel, the later returns the
\* raster the earlier returned and adds no cache entry (here for a request
\* that directly follows the earlier one).
C19_NearRequestsShareRaster ==
  [][\A id \in DOMAIN infos :
       /\ ret.op = "load_symbolic" /\ ret.info = id /\ ret.pixbuf # NoPixbuf
       /\ ret'.op = "load_symbolic" /\ ret'.info = id
       /\ Within(ret.fg, ret'.fg) /\ Within(ret.success_color, ret'.success_color)
       => /\ ret'.pixbuf = ret.pixbuf
          /\ Entries(infos'[id]) = Entries(infos[id])]_vars

\* The first entry of the list whose four colors are within the tolerance of
\* the request's, 0 if there is none
FirstWithin(entries, fg, success_color) ==
  LET near(i) == /\ Within(fg, entries[i].fg)
                 /\ Within(success_color, entries[i].success_color)
                 /\ Within(NoColor, entries[i].warning_color)
                 /\ Within(NoColor, entries[i].error_color)
  IN  IF \E i \in 1..Len(entries) : near(i)
        THEN CHOOSE i \in 1..Len(entries) : near(i) /\ \A j \in 1..(i - 1) : ~near(j)
        ELSE 0

\* C19, amended: a symbolic render request returns the raster of the first
\* entry of the IconInfo's list, newest first, whose four colors (an unset
\* color counted as transparent) each differ from the request's by less than
\* 1e-4 in every channel, and adds no entry; if there is no such entry it
\* returns a raster rendered for it and, unless the render fails, adds that
\* raster with the request's colors as the newest entry.
C19_FirstNearEntryWins ==
  [][\A id \in DOMAIN infos, c \in SymbolicRequests :
       SymbolicRequest(id, c[1], c[2])
         => LET entries == Entries(infos[id])
                i == FirstWithin(entries, c[1], c[2])
            IN  IF i # 0
                  THEN /\ ret'.pixbuf = entries[i].pixbuf
                       /\ Entries(infos'[id]) = entries
                ELSE IF ret'.pixbuf # NoPixbuf
                  THEN /\ \A j \in 1..Len(entries) : entries[j].pixbuf # ret'.pixbuf
                       /\ Entries(infos'[id])
                            = <<[pixbuf |-> ret'.pixbuf, fg |-> c[1],
                                 success_color |-> Transparent,
                                 warning_color |-> Transparent,
                                 error_color |-> Transparent]>> \o entries
                ELSE Entries(infos'[id]) = entries]_vars

\* A request has returned the raster of the older of two entries, rendered
\* for a foreground color that is not the request's, after passing over the
\* newer entry
C19_Witness ==
  /\ ret.op = "load_symbolic"
  /\ Len(infos[ret.info].symbolic_pixbuf_cache) = 2
  /\ ret.pixbuf = infos[ret.info].symbolic_pixbuf_cache[2].pixbuf
  /\ ret.fg # infos[ret.info].symbolic_pixbuf_cache[2].fg

-----------------------------------------------------------------------------
(* The built-in registry: callers register rasters under the names "foo"    *)
(* and "stock" at several sizes, before and after lookups of these names.   *)
(* No directory of a theme and no loose file holds either name; the         *)
(* compiled-in icon cache holds "stock".  The current theme is "Foo", which *)
(* inherits "Bar", or the default theme.                                    *)

MaxBuiltins == 3

BuiltinNames == {FooName, StockName}

BuiltinSizes == {22, 24, 48}

BuiltinThemes == {"Foo", DEFAULT_THEME_NAME}

BuiltinInfos == 1

\* The number of gtk_icon_theme_add_builtin_icon calls made so far
Registrations ==
  LET RECURSIVE Sum(_)
      Sum(S) == IF S = {} THEN 0
                ELSE LET n == CHOOSE n \in S : TRUE
                     IN  Len(icon_theme_builtin_icons[n]) + Sum(S \ {n})
  IN  Sum(DOMAIN icon_theme_builtin_icons)

\* gtk_icon_theme_add_builtin_icon (icon_name, size, pixbuf), with a pixbuf
\* that no earlier call registered
AddBuiltinIcon(icon_name, size) ==
  /\ Registrations < MaxBuiltins
  /\ icon_theme_builtin_icons' =
       add_builtin_icon(icon_theme_builtin_icons, icon_name, size,
                        <<"builtin", icon_name, Registrations + 1>>)
  /\ ret' = [op |-> "add_builtin_icon", icon_name |-> icon_name, size |-> size]
  /\ ProgUnchanged
  /\ UNCHANGED <<disk, now, handles, proxies, emitted, tasks>>

InitBuiltin ==
  /\ \E foo \in {<<>>, (BarName :> ICON_SUFFIX_PNG)},
        hicolor \in {<<>>, (BarName :> ICON_SUFFIX_PNG)} :
       InitEnv(LookupDisk(foo, <<>>, hicolor, <<"Bar">>), BuiltinInfos)
  /\ icon_theme_builtin_icons = <<>>
  /\ \E theme_name \in BuiltinThemes :
       InitProg(gtk_icon_theme_init(theme_name, BuiltinInfos))

NextBuiltin ==
  \/ \E icon_name \in BuiltinNames, size \in BuiltinSizes :
       AddBuiltinIcon(icon_name, size)
  \/ \E icon_name \in BuiltinNames, flags \in {{}, {"USE_BUILTIN"}} :
       ChooseIcon(<<icon_name>>, 24, 1, flags)
  \/ \E id \in DOMAIN infos : UnrefInfo(id)

SpecBuiltin == InitBuiltin /\ [][NextBuiltin]_vars

-----------------------------------------------------------------------------
(* C20: the round trip of the built-in registry *)

\* The registrations of icon_name, in the order of the name's list
Registered(icon_name) ==
  IF icon_name \in DOMAIN icon_theme_builtin_icons
    THEN icon_theme_builtin_icons[icon_name] ELSE <<>>

\* The registrations of icon_name made with the size size
RegisteredAt(icon_name, size) ==
  {i \in DOMAIN Registered(icon_name) : Registered(icon_name)[i].size = size}

\* No directory of a loaded theme and no loose file holds icon_name
NoDirectoryHolds(icon_name) ==
  /\ \A t \in DOMAIN themes : \A j \in DOMAIN themes[t].dirs :
       icon_name \notin DOMAIN themes[t].dirs[j].icons
  /\ icon_name \notin DOMAIN unthemed_icons

\* The compiled-in icon cache holds icon_name at some size
InCompiledCache(icon_name) ==
  \E i \in DOMAIN builtin_dirs : icon_name \in DOMAIN builtin_dirs[i].icons

\* The last call was a lookup of the one name icon_name at scale 1 with
\* GTK_ICON_LOOKUP_USE_BUILTIN, of a name held by no directory and
\* registered exactly once at the size looked up
RoundTripLookup(icon_name) ==
  /\ ret.op = "choose_icon"
  /\ ret.icon_names = <<icon_name>>
  /\ ret.scale = 1
  /\ "USE_BUILTIN" \in ret.flags
  /\ NoDirectoryHolds(icon_name)
  /\ ~InCompiledCache(icon_name)
  /\ Cardinality(RegisteredAt(icon_name, ret.size)) = 1

Near(icon_name, size) ==
  {i \in DOMAIN Registered(icon_name) :
     abs(Registered(icon_name)[i].size - size) <= 2}

\* The raster of the registration made last among those within 2 of size:
\* the third component of a registered raster counts the registrations
NewestNear(icon_name, size) ==
  LET icons == Registered(icon_name)
      i == CHOOSE i \in Near(icon_name, size) :
             \A j \in Near(icon_name, size) : icons[j].pixbuf[3] <= icons[i].pixbuf[3]
  IN  icons[i].pixbuf

-----------------------------------------------------------------------------
(* C21: a built-in within the slack of 2 pixels and the directories of the  *)
(* default theme                                                            *)

\* No directory of a theme searched before the default theme, and no loose
\* file, holds icon_name
OnlyDefaultThemeHolds(icon_name) ==
  /\ \A t \in DOMAIN themes : themes[t].name # DEFAULT_THEME_NAME =>
       \A j \in DOMAIN themes[t].dirs : icon_name \notin DOMAIN themes[t].dirs[j].icons
  /\ icon_name \notin DOMAIN unthemed_icons

\* The last call was a lookup of the one name icon_name with
\* GTK_ICON_LOOKUP_USE_BUILTIN that searched the themes, and a built-in
\* registered for icon_name is within 2 pixels of the size asked for
ExactBuiltinLookup(icon_name) ==
  /\ ret.op = "choose_icon"
  /\ ret.icon_names = <<icon_name>>
  /\ "USE_BUILTIN" \in ret.flags
  /\ ret.info # 0 => ret.created
  /\ OnlyDefaultThemeHolds(icon_name)
  /\ Near(icon_name, ret.size * ret.scale) # {}

\* C21: with use-built-in-fallback, a built-in registered within 2 pixels of
\* the requested size is reported by find_builtin_icon with a difference of
\* 0, and the lookup returns that built-in: no directory of the default
\* theme replaces it.
C21_ExactBuiltinBeatsDirectories ==
  \A icon_name \in DOMAIN icon_theme_builtin_icons :
    ExactBuiltinLookup(icon_name) =>
      /\ find_builtin_icon(icon_name, ret.size, ret.scale).min_difference = 0
      /\ ret.info # 0
      /\ ret.icon.cache_pixbuf
           = find_builtin_icon(icon_name, ret.size, ret.scale).icon.pixbuf

-----------------------------------------------------------------------------
(* find_builtin_icon as a function of the registrations: rasters are        *)
(* registered under "foo" at sizes on both sides of the sizes asked for, in *)
(* every order, and find_builtin_icon is applied to a size and a scale.     *)

FindSizes == {16, 20, 27, 32, 48}

FindRequests == {<<24, 1>>, <<12, 2>>, <<18, 2>>}

\* find_builtin_icon (icon_name, size, scale, &min_difference)
FindBuiltinIcon(icon_name, size, scale) ==
  \E r \in {find_builtin_icon(icon_name, size, scale)} :
      /\ ret' = [op |-> "find_builtin_icon", icon_name |-> icon_name, size |-> size,
                 scale |-> scale, icon |-> r.icon,
                 min_difference |-> r.min_difference]
      /\ ProgUnchanged
      /\ EnvUnchanged

InitFind ==
  /\ InitEnv(LookupDisk(<<>>, <<>>, <<>>, <<"Bar">>), BuiltinInfos)
  /\ icon_theme_builtin_icons = <<>>
  /\ InitProg(gtk_icon_theme_init("Foo", BuiltinInfos))

NextFind ==
  \/ \E size \in FindSizes : AddBuiltinIcon(FooName, size)
  \/ \E r \in FindRequests : FindBuiltinIcon(FooName, r[1], r[2])

SpecFind == InitFind /\ [][NextFind]_vars

-----------------------------------------------------------------------------
(* C22: the built-in chosen when none is within the slack *)

\* The sizes registered for icon_name
RegisteredSizes(icon_name) ==
  {Registered(icon_name)[i].size : i \in DOMAIN Registered(icon_name)}

\* The last call was find_builtin_icon for a name with registrations, none
\* of them within 2 pixels of size * scale
DistantFind ==
  /\ ret.op = "find_builtin_icon"
  /\ Registered(ret.icon_name) # <<>>
  /\ Near(ret.icon_name, ret.size * ret.scale) = {}

\* C22: when no built-in registered for the name is within 2 pixels of
\* size * scale, find_builtin_icon returns, whatever the order of the
\* registrations, the nearest registered size above the request if there is
\* one and the nearest registered size below it otherwise, and reports the
\* difference of the built-in it returns (the distance from the request to
\* the built-in's size widened by 2 pixels).
C22_ClosestLargerElseClosestSmaller ==
  DistantFind =>
    LET request == ret.size * ret.scale
        sizes == RegisteredSizes(ret.icon_name)
        larger == {s \in sizes : s > request}
        best == IF larger # {}
                  THEN CHOOSE s \in larger : \A x \in larger : s <= x
                  ELSE CHOOSE s \in sizes : \A x \in sizes : x <= s
    IN  /\ ret.icon # NoBuiltin
        /\ ret.icon.size = best
        /\ ret.min_difference = abs(best - request) - 2

\* find_builtin_icon has chosen the nearest larger size from three
\* registrations: a smaller one, then the farther and then the nearer of two
\* larger ones, or the two larger ones in the other order
C22_Witness ==
  /\ DistantFind
  /\ Len(Registered(ret.icon_name)) = 3
  /\ LET icons == Registered(ret.icon_name)
         request == ret.size * ret.scale
     IN  /\ \E i, j, k \in 1..3 :
              /\ icons[i].size < request
              /\ request < icons[j].size /\ icons[j].size < icons[k].size
              /\ ret.icon = icons[j]
         /\ icons[3].size < request \/ icons[1].size < request

-----------------------------------------------------------------------------
(* Changes of the search path *)

MaxSearchPath == 2

SearchPathChanged(op, P, path) ==
  /\ Len(P.search_path) <= MaxSearchPath
  /\ SetProg(P)
  /\ ret' = [op |-> op, path |-> path]
  /\ EnvUnchanged

SetSearchPath(path) ==
  SearchPathChanged("set_search_path", gtk_icon_theme_set_search_path(Prog, path), path)

AppendSearchPath(path) ==
  SearchPathChanged("append_search_path", gtk_icon_theme_append_search_path(Prog, path),
                    path)

PrependSearchPath(path) ==
  SearchPathChanged("prepend_search_path",
                    gtk_icon_theme_prepend_search_path(Prog, path), path)

-----------------------------------------------------------------------------
(* Theme loading over Inherits graphs: each of the themes "Foo", "Bar",     *)
(* "gnome" and the default theme has no descriptor below RootPath, a        *)
(* descriptor without a Directories key, or a descriptor with one directory *)
(* and an Inherits list, among them lists that name the theme itself, name  *)
(* a theme twice, share a parent, or close a cycle.  OptPath holds further  *)
(* descriptors.  Callers look an icon up, switch the theme, change the      *)
(* search path, and the directory of "Foo" changes while time passes.       *)

ThemeNames == {"Foo", "Bar", "gnome", DEFAULT_THEME_NAME}

\* A descriptor without a Directories key
NoDirectories == [has_dirs |-> FALSE, dirs |-> <<>>, inherits |-> <<>>]

\* A descriptor with one directory, which holds no icon
Inheriting(dir, inherits) ==
  Descriptor(<<IconThemeDir(ICON_THEME_DIR_FIXED, 24, 24, 24, 2, 1, dir, <<>>)>>,
             inherits)

\* The descriptor files a path may hold: <<>> if it holds none
FooFiles ==
  {<<>>, <<NoDirectories>>}
  \cup {<<Inheriting("Foo", inherits)>> :
          inherits \in {<<>>, <<"Foo">>, <<"Bar">>, <<"Bar", "Bar">>,
                        <<DEFAULT_THEME_NAME, "Bar">>}}
BarFiles ==
  {<<>>}
  \cup {<<Inheriting("Bar", inherits)>> :
          inherits \in {<<>>, <<"Foo", DEFAULT_THEME_NAME>>,
                        <<"gnome", DEFAULT_THEME_NAME>>}}
GnomeFiles ==
  {<<>>}
  \cup {<<Inheriting("gnome", inherits)>> :
          inherits \in {<<>>, <<DEFAULT_THEME_NAME>>, <<"Foo">>}}
HicolorFiles ==
  {<<>>, <<NoDirectories>>}
  \cup {<<Inheriting(DEFAULT_THEME_NAME, inherits)>> : inherits \in {<<>>, <<"gnome">>}}

\* The descriptors below OptPath
OptFiles ==
  ("/opt/Foo" :> Inheriting("/opt/Foo", <<"Bar", "gnome">>))
  @@ ("/opt/gnome" :> Inheriting("/opt/gnome", <<"Foo">>))

ThemesDisk(foo, bar, gnome, hicolor) ==
  LET files == ("Foo" :> foo) @@ ("Bar" :> bar) @@ ("gnome" :> gnome)
               @@ (DEFAULT_THEME_NAME :> hicolor)
      desc == [n \in {n \in ThemeNames : files[n] # <<>>} |-> files[n][1]] @@ OptFiles
  IN  [desc |-> desc, unthemed |-> <<>>, supports_svg |-> TRUE,
       mtime |-> [p \in DOMAIN desc \cup {RootPath, OptPath} |-> 1]]

ThemesInfos == 1

InitThemes ==
  /\ \E foo \in FooFiles, bar \in BarFiles, gnome \in GnomeFiles,
        hicolor \in HicolorFiles :
       InitEnv(ThemesDisk(foo, bar, gnome, hicolor), ThemesInfos)
  /\ icon_theme_builtin_icons = <<>>
  /\ InitProg(gtk_icon_theme_init("Foo", ThemesInfos))

NextThemes ==
  \/ ChooseIcon(<<FooName>>, 24, 1, {})
  \/ \E theme_name \in {"Foo", "gnome", DEFAULT_THEME_NAME} : SetCustomTheme(theme_name)
  \/ SetSearchPath(<<RootPath>>)
  \/ AppendSearchPath(OptPath)
  \/ PrependSearchPath(OptPath)
  \/ \E dt \in TickSteps : Tick(dt)
  \/ Touch("Foo")

SpecThemes == InitThemes /\ [][NextThemes]_vars

-----------------------------------------------------------------------------
(* C23: no theme name twice in the list of themes *)

\* The names of the themes in the list, in the order of the search
ThemeList == [i \in DOMAIN themes |-> themes[i].name]

\* The descriptor that theme_name is loaded from: the first on the search
\* path (<<>> if there is none)
LoadedFrom(theme_name) ==
  LET found == {i \in DOMAIN search_path :
                  g_build_filename(search_path[i], theme_name) \in DOMAIN disk.desc}
  IN  IF found = {} THEN <<>>
      ELSE <<disk.desc[g_build_filename(search_path[CHOOSE i \in found :
                                                      \A j \in found : i <= j],
                                        theme_name)]>>

\* The names in the Inherits list of theme_name's descriptor
Parents(theme_name) ==
  IF LoadedFrom(theme_name) = <<>> THEN {}
  ELSE {LoadedFrom(theme_name)[1].inherits[i] :
          i \in DOMAIN LoadedFrom(theme_name)[1].inherits}

\* C23: after any sequence of loads, reloads, theme changes and changes of
\* the search path, for every Inherits graph, no two entries of the list of
\* themes have the same name.
C23_NoDuplicateThemes ==
  \A i, j \in DOMAIN themes : themes[i].name = themes[j].name => i = j

\* The themes are loaded from a graph in which the current theme and one of
\* its parents inherit each other, a third theme is a parent of both, and
\* the list holds all three
C23_Witness ==
  /\ themes_valid
  /\ \E a, b, c \in ThemeNames :
       /\ a # b /\ a # c /\ b # c
       /\ a = current_theme
       /\ b \in Parents(a) /\ a \in Parents(b)
       /\ c \in Parents(a) /\ c \in Parents(b)
       /\ \A n \in {a, b, c} : \E i \in DOMAIN themes : themes[i].name = n

-----------------------------------------------------------------------------
(* C24: the default theme at the end of the list of themes *)

\* C24: after every completed load the last entry of the list of themes is
\* the default theme, whatever the current theme and its Inherits list are
\* and whether or not the search path holds a descriptor for the default
\* theme.
C24_DefaultThemeLast ==
  themes_valid => /\ themes # <<>>
                  /\ themes[Len(themes)].name = DEFAULT_THEME_NAME

-----------------------------------------------------------------------------
(* C25: theme loading terminates.  Every call of insert_theme that gets     *)
(* past the test of the list records the mtime of the theme's directory     *)
(* below each directory of the search path, so dir_mtimes counts the        *)
(* themes visited in a load.                                                *)

\* How often the load has visited theme_name: each visit records the
\* theme's directory below search_path[1] once for every time the search
\* path names that directory
Visits(theme_name) ==
  LET first == {j \in DOMAIN search_path : search_path[j] = search_path[1]}
  IN  Cardinality({i \in DOMAIN dir_mtimes :
                     dir_mtimes[i].dir = g_build_filename(search_path[1], theme_name)})
        \div Cardinality(first)

\* The visits of the load in all
TotalVisits == (Len(dir_mtimes) - Len(search_path)) \div Len(search_path)

\* The entries of the Inherits lists of the themes in the list, from the
\* i-th theme on
RECURSIVE InheritsEntries(_)
InheritsEntries(i) ==
  IF i > Len(themes) THEN 0
  ELSE (IF LoadedFrom(themes[i].name) = <<>> THEN 0
        ELSE Len(LoadedFrom(themes[i].name)[1].inherits))
       + InheritsEntries(i + 1)

\* C25: theme loading terminates for every finite set of descriptors,
\* Inherits lists that name the theme itself or close a cycle included: a
\* load has visited every theme in the list once, and has made no more
\* visits than the three of load_themes and one for each entry of the
\* Inherits lists of the themes in the list.
C25_LoadTerminates ==
  themes_valid =>
    /\ \A i \in DOMAIN themes : Visits(themes[i].name) = 1
    /\ TotalVisits <= 3 + InheritsEntries(1)

\* The themes are loaded from Inherits lists that close a cycle through
\* three themes, the current theme among them, and the list holds all three
C25_Witness ==
  /\ themes_valid
  /\ \E a, b, c \in ThemeNames :
       /\ a # b /\ a # c /\ b # c
       /\ a = current_theme
       /\ b \in Parents(a) /\ c \in Parents(b) /\ a \in Parents(c)
       /\ \A n \in {a, b, c} : \E i \in DOMAIN themes : themes[i].name = n

-----------------------------------------------------------------------------
(* Staleness: the theme "Foo" has one directory holding foo.png; a caller   *)
(* looks the icon up and releases what it holds while the directory of      *)
(* "Foo", whose mtime may be 0 (the epoch), is written to or removed and    *)
(* time passes in steps of 1 and 5 seconds.                                 *)

\* Something else removes a directory and what is in it
RemoveDir(path) ==
  /\ path \in DOMAIN disk.mtime
  /\ disk' = [disk EXCEPT
                !.mtime = [p \in DOMAIN @ \ {path} |-> @[p]],
                !.desc = [p \in DOMAIN @ \ {path} |-> @[p]]]
  /\ ret' = [op |-> "remove_dir"]
  /\ ProgUnchanged
  /\ UNCHANGED <<now, handles, proxies, emitted, icon_theme_builtin_icons, tasks>>

ChangeInfos == 2

ChangeTickSteps == {1, 5}

ChangeMtimes == {0, 1}

ChangeDisk(st_mtime) ==
  [desc |-> ("Foo" :> Descriptor(<<IconThemeDir(ICON_THEME_DIR_FIXED, 24, 24, 24, 2, 1,
                                                "Foo/24", (FooName :> ICON_SUFFIX_PNG))>>,
                                 <<>>))
            @@ ("/opt/Foo" :>
                  Descriptor(<<IconThemeDir(ICON_THEME_DIR_FIXED, 32, 32, 32, 2, 1,
                                            "/opt/Foo/32", (FooName :> ICON_SUFFIX_PNG))>>,
                             <<>>)),
   unthemed |-> <<>>, supports_svg |-> TRUE,
   mtime |-> (RootPath :> 1) @@ (OptPath :> 1) @@ ("Foo" :> st_mtime)
             @@ ("/opt/Foo" :> 1)]

\* The IconInfo references the callers hold in all
RECURSIVE HandlesFrom(_)
HandlesFrom(id) == IF id > Len(handles) THEN 0 ELSE handles[id] + HandlesFrom(id + 1)

InitStale ==
  /\ \E st_mtime \in ChangeMtimes : InitEnv(ChangeDisk(st_mtime), ChangeInfos)
  /\ icon_theme_builtin_icons = <<>>
  /\ InitProg(gtk_icon_theme_init("Foo", ChangeInfos))

NextStale ==
  \/ HandlesFrom(1) < ChangeInfos /\ ChooseIcon(<<FooName>>, 24, 1, {})
  \/ \E id \in DOMAIN infos : UnrefInfo(id)
  \/ ThemeChangedIdle
  \/ \E dt \in ChangeTickSteps : Tick(dt)
  \/ Touch("Foo")
  \/ RemoveDir("Foo")

SpecStale == InitStale /\ [][NextStale]_vars

-----------------------------------------------------------------------------
(* Changes of the theme and of the search path: the theme "Foo" has a      *)
(* descriptor naming a directory of size 24 that holds foo.png below        *)
(* RootPath and one naming a directory of size 32 below OptPath; a          *)
(* caller looks the icon up, renders it and releases what it holds,         *)
(* switches between the themes "Foo" and "Bar", and replaces, appends to    *)
(* and prepends to the search path, while the main loop runs the idle       *)
(* source.                                                                  *)

InitPath ==
  /\ InitEnv(ChangeDisk(1), ChangeInfos)
  /\ icon_theme_builtin_icons = <<>>
  /\ InitProg(gtk_icon_theme_init("Foo", ChangeInfos))

NextPath ==
  \/ HandlesFrom(1) < ChangeInfos /\ ChooseIcon(<<FooName>>, 24, 1, {})
  \/ \E id \in DOMAIN infos : UnrefInfo(id)
  \/ \E id \in DOMAIN infos : LoadIcon(id, TRUE)
  \/ \E id \in DOMAIN infos : UnrefPixbuf(id)
  \/ \E theme_name \in CacheThemes : SetCustomTheme(theme_name)
  \/ SetSearchPath(<<RootPath>>)
  \/ AppendSearchPath(OptPath)
  \/ PrependSearchPath(OptPath)
  \/ ThemeChangedIdle

SpecPath == InitPath /\ [][NextPath]_vars

-----------------------------------------------------------------------------
(* C27: no stat within 5 seconds of the last one *)

\* A tracked directory is not on disk as it was recorded: it was a
\* directory and is none now, or the reverse, or its mtime differs
DiskDiffers ==
  \E i \in DOMAIN dir_mtimes :
     LET dir_mtime == dir_mtimes[i]
         exists == dir_mtime.dir \in DOMAIN disk.mtime
     IN  \/ exists # dir_mtime.existed
         \/ exists /\ disk.mtime[dir_mtime.dir] # dir_mtime.mtime

\* The themes are valid and at most 5 seconds have passed since the last
\* recorded stat
WithinInterval == themes_valid /\ abs(now - last_stat_time) <= 5

\* C27: while the themes are valid and no more than 5 seconds have passed
\* since the last recorded stat time, ensure_valid_themes changes nothing
\* (neither the list of themes, the recorded mtimes and stat time, the
\* primary cache, the LRU list nor the pending notification), and a lookup
\* leaves the themes, the recorded mtimes and stat time and the pending
\* notification as they are, even if directories changed on disk.
C27_NoRestatWithinInterval ==
  [][WithinInterval
       => /\ ensure_valid_themes(Prog, disk, now) = Prog
          /\ ret'.op = "choose_icon"
               => UNCHANGED <<themes, unthemed_icons, dir_mtimes, last_stat_time,
                              themes_valid, theme_changed_idle>>]_vars

\* A lookup has been made 5 seconds after the last stat, when the tracked
\* directories had changed on disk, and has returned the cached IconInfo
C27_Witness ==
  /\ ret.op = "choose_icon"
  /\ ret.info # 0 /\ ~ret.created
  /\ themes_valid
  /\ now - last_stat_time = 5
  /\ DiskDiffers
  /\ rescan_changed(Prog, disk)

-----------------------------------------------------------------------------
(* C28: a stale theme set is reloaded by the next lookup *)

\* The themes are valid, more than 5 seconds have passed since the last
\* stat, and a tracked directory is not on disk as it was recorded
Stale == themes_valid /\ abs(now - last_stat_time) > 5 /\ DiskDiffers

\* The step is a lookup that empties the primary cache of what it held,
\* reloads the themes from the disk as it is, and leaves one emission of
\* "changed" pending
ReloadStep ==
  /\ info_cache' \cap info_cache = {}
  /\ \A id \in info_cache : ~infos'[id].in_cache
  /\ info_cache_lru' = <<>>
  /\ themes_valid' /\ last_stat_time' = now
  /\ dir_mtimes' = load_themes(blow_themes(Prog), disk, now).dir_mtimes
  /\ themes' = load_themes(blow_themes(Prog), disk, now).themes
  /\ theme_changed_idle'
  /\ emitted' = emitted

\* C28: if the themes are valid, more than 5 seconds have passed since the
\* last stat and the existence or the mtime of a tracked directory differs
\* from what was recorded, the next lookup clears the primary cache,
\* discards and reloads the themes and leads to one emission of "changed";
\* the first load, the themes never having been valid, leads to none.
C28_StaleLookupReloads ==
  [][ret'.op = "choose_icon"
       => /\ Stale => ReloadStep
          /\ (~themes_valid /\ ~theme_changed_idle)
               => (themes_valid' /\ ~theme_changed_idle')]_vars

-----------------------------------------------------------------------------
(* C29: theme and search path changes queue one emission of "changed" *)

SearchPathOps == {"set_search_path", "append_search_path", "prepend_search_path"}

\* The step swaps the theme name for another one, or replaces, appends to
\* or prepends to the search path
ChangeStep ==
  \/ ret'.op = "set_custom_theme" /\ current_theme' # current_theme
  \/ ret'.op \in SearchPathOps

\* The idle source emits once and removes itself
DispatchEmitsOnce ==
  ret'.op = "theme_changed_idle"
    => (theme_changed_idle /\ ~theme_changed_idle' /\ emitted' = emitted + 1)

-----------------------------------------------------------------------------
(* C30: a change of the search path empties the caches and invalidates the *)
(* themes                                                                  *)

\* The directories of the current theme as its first descriptor on the
\* search path names them
DirsOnSearchPath ==
  LET paths == [i \in DOMAIN search_path |->
                  g_build_filename(search_path[i], current_theme)]
      found == {i \in DOMAIN paths : paths[i] \in DOMAIN disk.desc}
      dirs == disk.desc[paths[CHOOSE i \in found : \A j \in found : i <= j]].dirs
  IN  IF found = {} THEN {} ELSE {dirs[k].dir : k \in DOMAIN dirs}

\* Every entry of the search path has its directory of the current theme
\* among the tracked ones
TracksSearchPath ==
  \A i \in DOMAIN search_path :
     \E k \in DOMAIN dir_mtimes :
        dir_mtimes[k].dir = g_build_filename(search_path[i], current_theme)

\* C30: after a replace, append or prepend of the search path the primary
\* cache is empty, the LRU list is empty and the themes are not valid; the
\* next lookup loads the themes against the new path, and the IconInfo it
\* returns is made by that lookup from a directory found on the new path.
C30_SearchPathChangeInvalidates ==
  [][/\ ret'.op \in SearchPathOps
          => /\ info_cache' = {} /\ info_cache_lru' = <<>> /\ ~themes_valid'
             /\ \A id \in DOMAIN infos : ~infos'[id].in_cache
     /\ (ret'.op = "choose_icon" /\ ~themes_valid)
          => /\ themes_valid' /\ TracksSearchPath'
             /\ ret'.info # 0
                  => /\ ret'.created /\ infos[ret'.info].ref_count = 0
                     /\ ret'.icon.filename[1] \in DirsOnSearchPath']_vars

\* A caller still holds the IconInfo of "Foo/24" that a lookup returned
\* under the old search path; OptPath was put in front, and the next lookup
\* made a new IconInfo from the directory below OptPath
C30_Witness ==
  /\ ret.op = "choose_icon" /\ ret.created
  /\ search_path = <<OptPath, RootPath>>
  /\ ret.icon.filename[1] = "/opt/Foo/32"
  /\ \E id \in DOMAIN infos :
        /\ id # ret.info
        /\ infos[id].ref_count > 0 /\ ~infos[id].in_cache
        /\ infos[id].filename[1] = "Foo/24"

-----------------------------------------------------------------------------
(* ensure_valid_themes step by step: a top-level call reads was_valid,     *)
(* tests and sets loading_themes, runs the rescan block and then the load  *)
(* block, which clears the flag; while it is between its steps, code it    *)
(* called may call ensure_valid_themes again.  Between top-level calls     *)
(* icons are looked up and released, the theme is switched, the idle       *)
(* source runs, time passes and the directory of "Foo" is written to.      *)

MaxNested == 2

\* A top-level call of ensure_valid_themes is between its steps; ret holds
\* its position pc and its local was_valid
InCall == ret.op = "ensure_valid_themes" /\ ret.pc # "done"

\* gboolean was_valid = priv->themes_valid; the test and set of the flag
EnsureValidBegin ==
  /\ ~InCall
  /\ SetProg(IF loading_themes THEN Prog ELSE [Prog EXCEPT !.loading_themes = TRUE])
  /\ ret' = [op |-> "ensure_valid_themes",
             pc |-> IF loading_themes THEN "done" ELSE "rescan",
             was_valid |-> themes_valid, nested |-> 0, blocked |-> loading_themes]
  /\ EnvUnchanged

\* if (priv->themes_valid) { ... rescan_themes ... blow_themes }
EnsureValidRescan ==
  /\ InCall /\ ret.pc = "rescan"
  /\ SetProg(ensure_valid_themes_rescan(Prog, disk, now))
  /\ ret' = [ret EXCEPT !.pc = "load"]
  /\ EnvUnchanged

\* if (!priv->themes_valid) { load_themes ... }; priv->loading_themes = FALSE
EnsureValidLoad ==
  /\ InCall /\ ret.pc = "load"
  /\ SetProg(ensure_valid_themes_load(Prog, disk, now, ret.was_valid))
  /\ ret' = [ret EXCEPT !.pc = "done"]
  /\ EnvUnchanged

\* A call of ensure_valid_themes from below the one in progress
NestedEnsureValid ==
  /\ InCall
  /\ ret.nested < MaxNested
  /\ SetProg(ensure_valid_themes(Prog, disk, now))
  /\ ret' = [ret EXCEPT !.nested = @ + 1]
  /\ EnvUnchanged

InitReentrant ==
  /\ InitEnv(ChangeDisk(1), ChangeInfos)
  /\ icon_theme_builtin_icons = <<>>
  /\ InitProg(gtk_icon_theme_init("Foo", ChangeInfos))

NextReentrant ==
  \/ EnsureValidBegin
  \/ EnsureValidRescan
  \/ EnsureValidLoad
  \/ NestedEnsureValid
  \/ ~InCall /\ HandlesFrom(1) < ChangeInfos /\ ChooseIcon(<<FooName>>, 24, 1, {})
  \/ ~InCall /\ \E id \in DOMAIN infos : UnrefInfo(id)
  \/ ~InCall /\ \E theme_name \in CacheThemes : SetCustomTheme(theme_name)
  \/ ~InCall /\ ThemeChangedIdle
  \/ ~InCall /\ \E dt \in ChangeTickSteps : Tick(dt)
  \/ ~InCall /\ Touch("Foo")

SpecReentrant == InitReentrant /\ [][NextReentrant]_vars

-----------------------------------------------------------------------------
(* C26: the load-in-progress guard of ensure_valid_themes *)

\* The step is a call of ensure_valid_themes made while another is in
\* progress
NestedStep ==
  InCall /\ ret'.op = "ensure_valid_themes" /\ ret'.nested = ret.nested + 1

\* C26: a call of ensure_valid_themes that arrives while a load is in
\* progress (loading_themes set) returns at once: it loads nothing, stats
\* nothing, leaves the cache alone and queues no notification; and
\* loading_themes is clear whenever no call of ensure_valid_themes is
\* executing, so no top-level call is turned away by the guard.
C26_NestedCallReturnsAtOnce ==
  [][/\ NestedStep => (loading_themes /\ ProgUnchanged /\ emitted' = emitted)
     /\ ~InCall' => ~loading_themes'
     /\ (~InCall /\ ret'.op = "ensure_valid_themes") => ~ret'.blocked]_vars

\* A top-level call found the themes valid and stale, its rescan block
\* discarded them, and a nested call arrived before the load block ran
C26_Witness ==
  /\ InCall /\ ret.pc = "load"
  /\ ret.nested > 0
  /\ ret.was_valid /\ ~themes_valid
  /\ loading_themes

-----------------------------------------------------------------------------
(* The fallbacks of a lookup: the theme "Foo" has one directory holding    *)
(* foo.png, RootPath holds loose image files named "loose" (an SVG file, a *)
(* PNG or XPM file, or both), and nothing is named "missing".  The image   *)
(* codec may or may not read SVG.  Callers look the three names up with    *)
(* and without the flags that allow or forbid SVG, alone or through the    *)
(* entry point that looks up and renders, and release what they hold,      *)
(* while the directory of "Foo" is written to and time passes.             *)

LooseName == <<"loose">>
MissingName == <<"missing">>

LooseFile(suffix) == <<RootPath, LooseName, suffix>>

\* The entries of the unthemed table that the files named "loose" lead to
LooseEntries ==
  {[svg_filename |-> LooseFile(ICON_SUFFIX_SVG), no_svg_filename |-> NoFile],
   [svg_filename |-> NoFile, no_svg_filename |-> LooseFile(ICON_SUFFIX_PNG)],
   [svg_filename |-> NoFile, no_svg_filename |-> LooseFile(ICON_SUFFIX_XPM)],
   [svg_filename |-> LooseFile(ICON_SUFFIX_SVG),
    no_svg_filename |-> LooseFile(ICON_SUFFIX_PNG)],
   [svg_filename |-> LooseFile(ICON_SUFFIX_SVG),
    no_svg_filename |-> LooseFile(ICON_SUFFIX_XPM)]}

FallbackDisk(entry, supports_svg) ==
  [Disk(("Foo" :> Descriptor(<<IconThemeDir(ICON_THEME_DIR_FIXED, 24, 24, 24, 2, 1,
                                            "Foo/24", (FooName :> ICON_SUFFIX_PNG))>>,
                             <<>>)),
        (LooseName :> entry))
     EXCEPT !.supports_svg = supports_svg]

FallbackNames == {<<FooName>>, <<LooseName>>, <<MissingName>>, <<MissingName, LooseName>>}

FallbackFlags == {{}, {"NO_SVG"}, {"FORCE_SVG"}}

FallbackInfos == 2

\* gtk_icon_theme_load_icon_for_scale by a caller, who keeps the pixbuf;
\* the heap has room for the IconInfo the lookup may make
LoadIconForScale(icon_name, size, scale, flags, decoded) ==
  /\ NewId # 0
  /\ \E r \in {gtk_icon_theme_load_icon_for_scale(
              Prog, disk, now, NewId, icon_name, size, scale, flags, disk.supports_svg,
              [id \in DOMAIN infos |-> ProxyRefs(id)], decoded)} :
      /\ r.ok => r.proxy_refs - TaskPixbufs(r.info) <= MaxPixbufRefs
      /\ SetProg(r.P)
      /\ proxies' = IF r.ok
                      THEN [proxies EXCEPT ![r.info] = r.proxy_refs - TaskPixbufs(r.info)]
                      ELSE proxies
      /\ ret' = [op |-> "load_icon_for_scale", icon_names |-> <<icon_name>>,
                 size |-> size, scale |-> scale, flags |-> flags, info |-> r.info,
                 created |-> r.created, ok |-> r.ok, error |-> r.error]
      /\ UNCHANGED <<disk, now, handles, emitted, icon_theme_builtin_icons, tasks>>

InitFallback ==
  /\ \E entry \in LooseEntries, supports_svg \in BOOLEAN :
       InitEnv(FallbackDisk(entry, supports_svg), FallbackInfos)
  /\ icon_theme_builtin_icons = <<>>
  /\ InitProg(gtk_icon_theme_init("Foo", FallbackInfos))

NextFallback ==
  \/ \E icon_names \in FallbackNames, flags \in FallbackFlags :
       HandlesFrom(1) < FallbackInfos /\ ChooseIcon(icon_names, 24, 1, flags)
  \/ \E icon_name \in {FooName, LooseName, MissingName}, decoded \in BOOLEAN :
       LoadIconForScale(icon_name, 24, 1, {}, decoded)
  \/ \E id \in DOMAIN infos : UnrefInfo(id)
  \/ \E id \in DOMAIN infos : UnrefPixbuf(id)
  \/ \E dt \in TickSteps : Tick(dt)
  \/ Touch("Foo")

SpecFallback == InitFallback /\ [][NextFallback]_vars

-----------------------------------------------------------------------------
(* C31: a lookup that nothing matches *)

\* The step is a lookup, alone or through the entry point that also
\* renders, that returned no IconInfo
FailedLookup ==
  ret'.op \in {"choose_icon", "load_icon_for_scale"} /\ ret'.info = 0

\* The lookup finds the themes valid and stale and the disk changed, so
\* ensure_valid_themes discards and reloads them
ReloadingLookup ==
  themes_valid /\ abs(now - last_stat_time) > 5 /\ rescan_changed(Prog, disk)

NotFoundReported ==
  ret'.op = "load_icon_for_scale" => (~ret'.ok /\ ret'.error = "GTK_ICON_THEME_NOT_FOUND")

\* C31: a lookup for which no theme directory, built-in or unthemed file
\* matches any candidate name returns no IconInfo and leaves the primary
\* cache and the LRU list unchanged, no entry being made for the failed
\* key; the entry point that looks up and renders then reports the
\* not-found error.
C31_FailedLookupLeavesCaches ==
  [][FailedLookup
       => /\ info_cache' = info_cache
          /\ info_cache_lru' = info_cache_lru
          /\ infos' = infos
          /\ NotFoundReported]_vars

\* C31 as the code has it: the failed lookup makes no entry and no
\* IconInfo, and reports not-found through the rendering entry point; the
\* primary cache and the LRU list are unchanged unless the lookup found the
\* themes stale and changed on disk, in which case ensure_valid_themes has
\* emptied both before the search.
C31_FailedLookupMakesNoEntry ==
  [][FailedLookup
       => /\ ~ReloadingLookup
               => /\ info_cache' = info_cache
                  /\ info_cache_lru' = info_cache_lru
                  /\ infos' = infos
          /\ ReloadingLookup => (info_cache' = {} /\ info_cache_lru' = <<>>)
          /\ \A id \in DOMAIN infos : infos[id].ref_count = 0 => infos'[id] = infos[id]
          /\ NotFoundReported]_vars

\* The entry point that looks up and renders has reported not-found for
\* "missing" while the cache holds the IconInfo of an earlier lookup
C31_Witness ==
  /\ ret.op = "load_icon_for_scale"
  /\ ret.icon_names = <<MissingName>>
  /\ ret.info = 0 /\ ret.error = "GTK_ICON_THEME_NOT_FOUND"
  /\ info_cache # {}
  /\ themes_valid

-----------------------------------------------------------------------------
(* C39: an IconInfo of the unthemed table has a file *)

\* The step is a lookup that returned an IconInfo made from the table of
\* loose files
UnthemedLookup ==
  /\ ret'.op = "choose_icon"
  /\ ret'.info # 0
  /\ ret'.icon.dir_type = ICON_THEME_DIR_UNTHEMED

\* C39: every IconInfo returned from the unthemed table has a resolved file
\* name, whether the table holds an SVG file, another file or both for the
\* name, whatever the flags about SVG are, and whether or not the image
\* codec reads SVG.
C39_UnthemedHasFilename ==
  [][UnthemedLookup => ret'.icon.filename # NoFile]_vars


-----------------------------------------------------------------------------
(* C32: the order of the list of themes after a load *)

\* theme_name has a descriptor on the search path that names directories
Usable(theme_name) ==
  /\ LoadedFrom(theme_name) # <<>>
  /\ LoadedFrom(theme_name)[1].has_dirs

\* The Inherits list that is followed from theme_name
InheritsOf(theme_name) ==
  IF Usable(theme_name) THEN LoadedFrom(theme_name)[1].inherits ELSE <<>>

\* The depth-first order: a name already placed is skipped, a name with a
\* usable descriptor is placed and all that its Inherits list reaches comes
\* before the next name; the default theme is placed whatever its
\* descriptor is
RECURSIVE DepthFirst(_, _, _)
DepthFirst(placed, names, i) ==
  IF i > Len(names) THEN placed
  ELSE LET theme_name == names[i]
           present == \E k \in DOMAIN placed : placed[k] = theme_name
           here == IF present \/ ~(Usable(theme_name) \/ theme_name = DEFAULT_THEME_NAME)
                     THEN placed
                     ELSE DepthFirst(Append(placed, theme_name),
                                     InheritsOf(theme_name), 1)
       IN  DepthFirst(here, names, i + 1)

\* C32: after a load the list of themes is the current theme followed by
\* the themes reached through Inherits in depth-first order, then "gnome",
\* then the default theme, each only if not yet present; the current theme
\* is first whenever it has a usable descriptor, and every theme that is
\* neither the first nor "gnome" nor the default theme stands behind a
\* theme that inherits it.
C32_DepthFirstOrder ==
  themes_valid =>
    /\ ThemeList = DepthFirst(<<>>, <<current_theme, "gnome", DEFAULT_THEME_NAME>>, 1)
    /\ Usable(current_theme) => ThemeList[1] = current_theme
    /\ \A k \in DOMAIN themes :
         \/ k = 1
         \/ ThemeList[k] \in {"gnome", DEFAULT_THEME_NAME}
         \/ \E j \in 1..(k - 1) : ThemeList[k] \in Parents(ThemeList[j])


-----------------------------------------------------------------------------
(* C33: parking an IconInfo that the LRU list holds already *)

\* The step releases the last reference to the proxy pixbuf of a cached
\* IconInfo id that is a member of the LRU list: proxy_pixbuf_destroy
\* parks it again
Reparks(id) ==
  /\ LastPixbufUnref(id)
  /\ ProxyRefs(id) = 1
  /\ infos[id].in_cache
  /\ InSeq(info_cache_lru, id)

\* C33: parking an IconInfo that is already a member of the LRU list moves
\* it to the head of the list and changes neither the length of the list
\* nor the reference count of the IconInfo (the step that parks it releases
\* the reference of the proxy pixbuf and no other); and in every state the
\* list holds no IconInfo twice.
C33_ReparkMovesToHead ==
  [][/\ \A i, j \in 1..Len(info_cache_lru') :
          info_cache_lru'[i] = info_cache_lru'[j] => i = j
     /\ \A id \in DOMAIN infos :
          Reparks(id) =>
            LET P == ensure_in_lru_cache(Prog, id)
            IN  /\ P.info_cache_lru = <<id>> \o RemoveFirst(info_cache_lru, id)
                /\ Len(P.info_cache_lru) = Len(info_cache_lru)
                /\ P.infos = infos
                /\ info_cache_lru' = P.info_cache_lru
                /\ infos'[id].ref_count = infos[id].ref_count - 1
                /\ \A x \in DOMAIN infos \ {id} : infos'[x] = infos[x]]_vars

\* An IconInfo that was in the LRU list behind another one has been parked
\* again and is now the head of the list, still held by its caller
C33_Witness ==
  /\ ret.op = "unref_pixbuf"
  /\ ret.moved
  /\ Len(info_cache_lru) >= 2
  /\ info_cache_lru[1] = ret.info
  /\ handles[ret.info] > 0


-----------------------------------------------------------------------------
(* C34: the assertion of gtk_icon_info_load_icon_finish *)

\* The step is the finish call for task t, whose worker has run
WorkerFinish(t) ==
  /\ tasks[t].state = "returned"
  /\ ~tasks[t].is_symbolic
  /\ tasks[t].dup # 0
  /\ ret'.op \in {"load_icon_finish", "abort"}
  /\ ret'.task = t

\* C34: after gtk_icon_info_load_icon_finish has reconciled the result of a
\* worker that ran, the original IconInfo is ready: it has pixels and
\* either no emblems or emblems applied, or it has a recorded load error.
\* The g_assert of the finish call holds on every path, for an IconInfo
\* with emblems none of which loads as for any other.
C34_FinishAssertionHolds ==
  [][\A t \in DOMAIN tasks :
       WorkerFinish(t) =>
         /\ icon_info_get_pixbuf_ready(infos'[tasks[t].source_object])
         /\ ret'.op = "load_icon_finish"]_vars


-----------------------------------------------------------------------------
(* Emblemed icons with several emblems.  The emblems of a GEmblemedIcon are  *)
(* a list of themed icons, each a list of icon names; a pixbuf is as wide   *)
(* and as high as its image scaled by the scale of its IconInfo.            *)

RECURSIVE lookup_emblems(_, _, _, _, _, _, _, _, _)

\* The loop of gtk_icon_theme_lookup_by_gicon_for_scale over the emblems of
\* the emblemed icon from the i-th on; info is the copy of the base
\* IconInfo.  always force size for emblems
lookup_emblems(P, d, tv_sec, info, emblems, i, size, scale, flags) ==
  IF i > Len(emblems) THEN P
  ELSE
    LET found(r) ==
          lookup_emblems(IF r.info # 0
                           THEN [r.P EXCEPT !.infos[info].emblem_infos = <<r.info>> \o @]
                           ELSE r.P,
                         d, tv_sec, info, emblems, i + 1, size, scale, flags)
    IN  found(choose_icon(P, d, tv_sec, Alloc(P), emblems[i], size \div 2, scale,
                          flags \cup {"FORCE_SIZE"}, d.supports_svg))

\* gtk_icon_theme_lookup_by_gicon_for_scale of a GEmblemedIcon whose icon is
\* the themed icon base_names and whose emblems are the themed icons
\* emblems.  The result is the state after and the IconInfo returned (0 for
\* NULL).
gtk_icon_theme_lookup_by_gicon_for_scale(P, d, tv_sec, base_names, emblems, size, scale, flags) ==
  LET dup(base_info, r) ==
        [P |-> lookup_emblems(g_object_unref(r.P, base_info), d, tv_sec, r.dup, emblems,
                              1, size, scale, flags),
         info |-> r.dup]
      base(r) == IF r.info # 0 THEN dup(r.info, icon_info_dup(r.P, r.info))
                 ELSE [P |-> r.P, info |-> 0]
  IN  base(choose_icon(P, d, tv_sec, Alloc(P), base_names, size, scale, flags,
                       d.supports_svg))

\* gdk_pixbuf_get_width and gdk_pixbuf_get_height of the pixbuf of info
gdk_pixbuf_get_width(info) == (info.dir_size * info.scale[1]) \div info.scale[2]

\* The width and height apply_emblems_to_pixbuf gives an emblem of ew by eh
\* pixels on a pixbuf w pixels wide
emblem_extent(w, ew, eh) ==
  IF ew >= w THEN <<(ew * 3) \div 4, (eh * 3) \div 4>> ELSE <<ew, eh>>

\* The x and y at which apply_emblems_to_pixbuf composites the emblem at
\* position pos of the list, ew by eh pixels, on a pixbuf of w by h pixels
emblem_origin(pos, w, h, ew, eh) ==
  CASE pos % 4 = 0 -> <<w - ew, h - eh>>
    [] pos % 4 = 1 -> <<w - ew, 0>>
    [] pos % 4 = 2 -> <<0, h - eh>>
    [] OTHER -> <<0, 0>>

\* gtk_icon_theme_lookup_by_gicon of an emblemed icon with the emblems
\* emblems: the caller keeps the reference returned
LookupByGIconForScale(base_names, emblems, size, scale, flags) ==
  /\ Cardinality(FreeIds(Prog)) >= 2 + Len(emblems)
  /\ \E r \in {gtk_icon_theme_lookup_by_gicon_for_scale(Prog, disk, now, base_names,
                                                         emblems, size, scale, flags)} :
        /\ SetProg(r.P)
        /\ handles' = IF r.info # 0 THEN [handles EXCEPT ![r.info] = @ + 1] ELSE handles
        /\ ret' = [op |-> "lookup_by_gicon", info |-> r.info, emblems |-> emblems]
  /\ UNCHANGED <<disk, now, proxies, emitted, icon_theme_builtin_icons, tasks>>

BazName == <<"baz">>

QuxName == <<"qux">>

EmblemInfos == 6

EmblemSize == 48

EmblemDisk ==
  Disk(("Foo" :> Descriptor(<<IconThemeDir(ICON_THEME_DIR_FIXED, 48, 48, 48, 2, 1,
                                           "Foo/48",
                                           (FooName :> ICON_SUFFIX_PNG)
                                             @@ (BarName :> ICON_SUFFIX_PNG)
                                             @@ (BazName :> ICON_SUFFIX_PNG)
                                             @@ (QuxName :> ICON_SUFFIX_PNG))>>,
                            <<>>)),
       <<>>)

\* The emblem lists of the emblemed icons looked up
EmblemLists ==
  {<<<<BarName>>>>, <<<<BarName>>, <<BazName>>>>, <<<<BazName>>, <<BarName>>>>,
   <<<<BarName>>, <<BazName>>, <<QuxName>>>>, <<<<MissingName>>, <<BarName>>>>,
   <<<<BarName>>, <<MissingName>>, <<QuxName>>>>}

InitEmblems ==
  /\ InitEnv(EmblemDisk, EmblemInfos)
  /\ icon_theme_builtin_icons = <<>>
  /\ InitProg(gtk_icon_theme_init("Foo", EmblemInfos))

NextEmblems ==
  \/ /\ ~Held(<<BarName>>)
     /\ ChooseIcon(<<BarName>>, EmblemSize \div 2, 1, {"FORCE_SIZE"})
  \/ \E emblems \in EmblemLists :
       /\ ~Held(<<>>)
       /\ LookupByGIconForScale(<<FooName>>, emblems, EmblemSize, 1, {})
  \/ \E id \in DOMAIN infos : UnrefInfo(id)
  \/ \E id \in DOMAIN infos, decoded \in BOOLEAN : LoadIcon(id, decoded)
  \/ \E id \in DOMAIN infos : UnrefPixbuf(id)

SpecEmblems == InitEmblems /\ [][NextEmblems]_vars

-----------------------------------------------------------------------------
(* C35: where the emblems are placed *)

\* The corner of a pixbuf of w by h pixels at which an emblem of ew by eh
\* pixels with the origin xy lies
Corner(xy, w, h, ew, eh) ==
  IF ew >= w \/ eh >= h THEN "none"
  ELSE CASE xy = <<w - ew, h - eh>> -> "southeast"
         [] xy = <<w - ew, 0>> -> "northeast"
         [] xy = <<0, 0>> -> "northwest"
         [] xy = <<0, h - eh>> -> "southwest"
         [] OTHER -> "none"

\* The corner at which the emblem at position pos of the list of IconInfo
\* id is composited
EmblemCorner(id, pos) ==
  LET emblem == infos[infos[id].emblem_infos[pos + 1]]
      w == gdk_pixbuf_get_width(infos[id])
      extent == emblem_extent(w, gdk_pixbuf_get_width(emblem),
                              gdk_pixbuf_get_width(emblem))
  IN  Corner(emblem_origin(pos, w, w, extent[1], extent[2]), w, w, extent[1], extent[2])

\* The IconInfo id is alive, its emblems are applied, and the emblem at
\* position pos of its list was loaded
Composited(id, pos) ==
  /\ infos[id].ref_count > 0
  /\ infos[id].emblems_applied
  /\ pos < Len(infos[id].emblem_infos)
  /\ infos[infos[id].emblem_infos[pos + 1]].pixbuf # NoPixbuf

\* The claimed corner of a position
ClaimedCorner == <<"southeast", "northeast", "northwest">>

\* The last call looked up an emblemed icon whose first emblem was found
FirstEmblemFound ==
  /\ ret.op = "lookup_by_gicon"
  /\ ret.info # 0
  /\ \E x \in DOMAIN infos :
       /\ InSeq(infos[ret.info].emblem_infos, x)
       /\ infos[x].key.icon_names = ret.emblems[1]

\* C35: the emblem at position 0 of the emblem list of an IconInfo is
\* composited at the southeast corner, the one at position 1 at the
\* northeast corner and the one at position 2 at the northwest corner; and
\* the first emblem of an emblemed icon, in the order the emblemed icon
\* lists its emblems, is the one at position 0.
C35_FirstEmblemSoutheast ==
  /\ \A id \in DOMAIN infos, pos \in 0..2 :
       Composited(id, pos) => EmblemCorner(id, pos) = ClaimedCorner[pos + 1]
  /\ FirstEmblemFound =>
       infos[infos[ret.info].emblem_infos[1]].key.icon_names = ret.emblems[1]


-----------------------------------------------------------------------------
(* The end of the icon theme: the last reference to the GtkIconTheme is     *)
(* dropped while callers may still hold IconInfos and pixbufs, which they   *)
(* go on rendering and releasing.                                           *)

\* gtk_icon_theme_finalize: the state after, and whether the g_assert on
\* the LRU list held
gtk_icon_theme_finalize(P) ==
  LET destroyed == g_hash_table_remove_all(P)
      P1 == blow_themes([destroyed EXCEPT !.theme_changed_idle = FALSE,
                                          !.current_theme = "",
                                          !.search_path = <<>>])
  IN  [P |-> P1, asserted |-> destroyed.info_cache_lru = <<>>]

\* The GtkIconTheme has not been finalized
Alive == ret.op # "finalize"

\* The last reference to the GtkIconTheme is dropped
Finalize ==
  /\ Alive
  /\ \E r \in {gtk_icon_theme_finalize(Prog)} :
        /\ SetProg(r.P)
        /\ ret' = [op |-> "finalize", asserted |-> r.asserted,
                   parked |-> Len(info_cache_lru)]
  /\ EnvUnchanged

FinalizeInfos == 2

FinalizeSizes == {24, 48}

InitFinalize ==
  /\ InitEnv(CacheDisk, FinalizeInfos)
  /\ icon_theme_builtin_icons = <<>>
  /\ InitProg(gtk_icon_theme_init("Foo", FinalizeInfos))

NextFinalize ==
  \/ \E size \in FinalizeSizes : Alive /\ ChooseIcon(<<FooName>>, size, 1, {})
  \/ \E theme_name \in CacheThemes : Alive /\ SetCustomTheme(theme_name)
  \/ \E id \in DOMAIN infos : UnrefInfo(id)
  \/ \E id \in DOMAIN infos : LoadIcon(id, TRUE)
  \/ \E id \in DOMAIN infos : UnrefPixbuf(id)
  \/ Finalize

SpecFinalize == InitFinalize /\ [][NextFinalize]_vars

-----------------------------------------------------------------------------
(* C36: the LRU list within the primary cache *)

\* C36: in every reachable state every IconInfo in the LRU list is an entry
\* of the primary cache and its in_cache link is set; hence clearing or
\* destroying the primary cache leaves the LRU list empty, and the
\* assertion of the finalizer of the icon theme holds.
C36_LruClearedWithCache ==
  /\ \A i \in 1..Len(info_cache_lru) :
        /\ info_cache_lru[i] \in info_cache
        /\ infos[info_cache_lru[i]].in_cache
  /\ g_hash_table_remove_all(Prog).info_cache_lru = <<>>
  /\ ret.op = "finalize" => ret.asserted /\ info_cache_lru = <<>>

\* The icon theme was finalized while the LRU list held two IconInfos, one
\* of them still held by a caller
C36_Witness ==
  /\ ret.op = "finalize"
  /\ ret.parked = 2
  /\ ret.asserted
  /\ \E id \in DOMAIN infos : handles[id] > 0 /\ infos[id].key.size # 0


-----------------------------------------------------------------------------
(* Invalidation by every cause: callers look the icon up, render it and     *)
(* release what they hold while the theme is switched, the search path is   *)
(* changed, and the directory of the theme changes on disk as time passes.  *)

InitInvalidate ==
  /\ InitEnv(ChangeDisk(1), ChangeInfos)
  /\ icon_theme_builtin_icons = <<>>
  /\ InitProg(gtk_icon_theme_init("Foo", ChangeInfos))

NextInvalidate ==
  \/ HandlesFrom(1) < ChangeInfos /\ ChooseIcon(<<FooName>>, 24, 1, {})
  \/ \E id \in DOMAIN infos : UnrefInfo(id)
  \/ \E id \in DOMAIN infos : LoadIcon(id, TRUE)
  \/ \E id \in DOMAIN infos : UnrefPixbuf(id)
  \/ \E theme_name \in CacheThemes : SetCustomTheme(theme_name)
  \/ SetSearchPath(<<RootPath>>)
  \/ PrependSearchPath(OptPath)
  \/ RescanIfNeeded
  \/ ThemeChangedIdle
  \/ \E dt \in TickSteps : Tick(dt)
  \/ Touch("Foo")

SpecInvalidate == InitInvalidate /\ [][NextInvalidate]_vars

-----------------------------------------------------------------------------
(* C37: no cache entry outlives the themes it was resolved against *)

\* The step is a lookup that hit the primary cache
HitStep ==
  /\ ret'.op = "choose_icon"
  /\ ret'.info # 0
  /\ ~ret'.created

\* A lookup in this state discards the themes: they are valid, the last
\* rescan is more than 5 seconds ago and a tracked path has changed
LookupDiscards ==
  /\ themes_valid
  /\ abs(now - last_stat_time) > 5
  /\ rescan_changed(Prog, disk)

\* C37: whenever the themes are not valid (never loaded, or invalidated by
\* a theme change, a change of the search path or a change detected on
\* disk) the primary cache and the LRU list are empty and no IconInfo has
\* its in_cache link set; and a lookup hits the cache only on an entry made
\* under the themes that are valid now, never in a step that discards them.
C37_InvalidThemesEmptyCaches ==
  [][/\ ~themes_valid' =>
          /\ info_cache' = {}
          /\ info_cache_lru' = <<>>
          /\ \A id \in DOMAIN infos : ~infos'[id].in_cache
     /\ HitStep =>
          /\ themes_valid /\ themes_valid'
          /\ ret'.info \in info_cache
          /\ ~LookupDiscards]_vars

\* A lookup after a change on disk was detected has made a new IconInfo,
\* while a caller still holds the one made for the same key under the
\* themes discarded, which is in the cache no more
C37_Witness ==
  /\ ret.op = "choose_icon"
  /\ ret.info # 0
  /\ ret.created
  /\ disk.mtime["Foo"] > 1
  /\ search_path = <<RootPath>>
  /\ \E id \in DOMAIN infos :
       /\ id # ret.info
       /\ handles[id] > 0
       /\ ~infos[id].in_cache
       /\ infos[id].key = infos[ret.info].key


-----------------------------------------------------------------------------
(* The LRU list under load and an invalidation: as under SpecLRU, and at    *)
(* any time the theme is switched to one that has no descriptor, after      *)
(* which the callers release what they hold and lookups find nothing.       *)

NextEvict ==
  \/ NextLRU
  \/ SetCustomTheme("Bar")

SpecEvict == InitLRU /\ [][NextEvict]_vars

-----------------------------------------------------------------------------
(* C38: no destroyed IconInfo is reachable *)

\* C38: an IconInfo whose reference count reaches zero is removed from the
\* primary cache and is in the LRU list no more when it is freed; the
\* reference count of every IconInfo is the number of handles callers
\* hold, plus one if its proxy pixbuf is alive, plus one if it is in the
\* LRU list; and so every entry of the primary cache and of the LRU list
\* is a live IconInfo, after any interleaving of lookups, renders, releases
\* of proxies and handles, evictions from the LRU list and invalidations.
C38_NoDestroyedInfoReachable ==
  [][/\ \A id \in DOMAIN infos :
          /\ infos'[id].ref_count = Holds(id)'
          /\ (infos[id].ref_count > 0 /\ infos'[id].ref_count = 0)
               => /\ id \notin info_cache'
                  /\ ~InSeq(info_cache_lru', id)
                  /\ infos'[id] = Freed
     /\ \A id \in info_cache' : infos'[id].ref_count > 0 /\ infos'[id] # Freed
     /\ \A i \in 1..Len(info_cache_lru') :
          /\ infos'[info_cache_lru'[i]].ref_count > 0
          /\ infos'[info_cache_lru'[i]] # Freed]_vars

\* Parking an IconInfo has evicted another one from the full LRU list and
\* freed it, while a member of the list is also held by a caller and so
\* has two references
C38_Witness ==
  /\ ret.op = "unref_pixbuf"
  /\ ret.dropped # {}
  /\ \A id \in ret.dropped : infos[id] = Freed
  /\ Len(info_cache_lru) = INFO_CACHE_LRU_SIZE
  /\ \E id \in DOMAIN infos :
       /\ InSeq(info_cache_lru, id)
       /\ handles[id] = 1
       /\ infos[id].ref_count = 2

-----------------------------------------------------------------------------
(* The symbolic cache under interleaved synchronous and asynchronous        *)
(* renders, under SpecSymbolic                                              *)

\* Do the colors of the entries a and b of a symbolic cache match each other
\* under the per-channel tolerance
EntriesMatch(a, b) ==
  /\ rgba_matches(a.fg, b.fg)
  /\ rgba_matches(a.success_color, b.success_color)
  /\ rgba_matches(a.warning_color, b.warning_color)
  /\ rgba_matches(a.error_color, b.error_color)

\* No two entries of the list have color tuples that match each other
NoTwoMatch(cache) ==
  \A i, j \in 1..Len(cache) : i # j => ~EntriesMatch(cache[i], cache[j])

\* The step is the finish of an asynchronous symbolic render on IconInfo id
\* whose worker returned a raster
RenderedFinish(id) ==
  /\ ret'.op = "load_symbolic_finish" /\ ret'.info = id
  /\ ret'.worker # NoPixbuf

\* C40: within one IconInfo's symbolic cache no two entries have color
\* tuples that match each other under the per-channel tolerance, after any
\* interleaving of synchronous renders and starts, worker runs and finishes
\* of asynchronous renders for the same or different colors; a finish that
\* finds a matching entry, added since its request started, leaves the list
\* as it is and returns that entry's raster, and a finish that finds none
\* adds the worker's raster and returns it.
C40_NoTwoEntriesMatch ==
  [][\A id \in DOMAIN infos :
       infos'[id] # Freed
         => /\ NoTwoMatch(infos'[id].symbolic_pixbuf_cache)
            /\ RenderedFinish(id)
                 => LET cache == infos[id].symbolic_pixbuf_cache
                        i == symbolic_pixbuf_cache_matches(cache, ret'.fg,
                                                           ret'.success_color, NoColor,
                                                           NoColor)
                    IN  IF i # 0
                          THEN /\ Entries(infos'[id]) = Entries(infos[id])
                               /\ ret'.pixbuf = cache[i].pixbuf
                          ELSE /\ Len(infos'[id].symbolic_pixbuf_cache) = Len(cache) + 1
                               /\ infos'[id].symbolic_pixbuf_cache[1].pixbuf = ret'.worker
                               /\ ret'.pixbuf = ret'.worker]_vars

\* An asynchronous render has finished on an IconInfo whose list holds two
\* entries: its worker returned a raster, and the finish returned instead
\* the raster of an entry that a synchronous render for a different, near
\* foreground color had added in the meantime
C40_Witness ==
  /\ ret.op = "load_symbolic_finish"
  /\ ret.worker # NoPixbuf
  /\ ret.pixbuf # ret.worker
  /\ ret.pixbuf[2] = "main"
  /\ ret.pixbuf[3] # ret.fg
  /\ infos[ret.info] # Freed
  /\ Len(infos[ret.info].symbolic_pixbuf_cache) = 2
  /\ \E i \in 1..2 : infos[ret.info].symbolic_pixbuf_cache[i].pixbuf = ret.pixbuf
  /\ \A i \in 1..2 : infos[ret.info].symbolic_pixbuf_cache[i].pixbuf # ret.worker

====
